---------------------------- MODULE Spec2Model ----------------------------
(***************************************************************************)
(* A model of serde_jce: the Jce wire format builder (src/ser/builder.rs), *)
(* the serde serializer on top of it (src/ser/serializer.rs), the parser   *)
(* (src/de/parser.rs), the serde deserializer with its record field        *)
(* access (src/de/deserializer.rs) and the untyped Value (src/value.rs).   *)
(*                                                                         *)
(* Representation of machine integers.  TLC's integers are 32 bit, so      *)
(*   i8, i16, i32, u8   are TLA+ integers,                                 *)
(*   i64                is a tuple of four 16-bit limbs <<l3,l2,l1,l0>>,   *)
(*                      value = l3*2^48 + l2*2^32 + l1*2^16 + l0, with l3  *)
(*                      signed (-32768..32767) and l2,l1,l0 in 0..65535,   *)
(*   u32                is a tuple of two unsigned 16-bit limbs,           *)
(*   f32, f64           are their bit patterns: two / four unsigned limbs. *)
(* A byte string (Vec<u8>, &[u8], the UTF-8 bytes of a str) is a sequence  *)
(* of numbers in 0..255.                                                   *)
(***************************************************************************)
EXTENDS Integers, Sequences, FiniteSets, TLC

VARIABLES
    bytes,      \* Jcebuilder.bytes: the append-only output buffer
    tag,        \* Serializer.tag: the tag the next value is written under
    ser_tags,   \* StructSerializer.tags: tags written in the open record
    input,      \* JceParser.bytes: the bytes the parser has not consumed
    de_tags,    \* TagsAccess.tags: tags seen in the record being decoded
    de_fields,  \* TagsAccess.fields: the expected tags, or None
    stack,      \* the loops and accesses of the calls in progress, innermost
                \* last, when a value is skipped or decoded step by step
    ret,        \* what the last operation returned
    pc,         \* the operation performed last
    arg         \* the inputs of the run, and what the caller collected

vars ==
    <<bytes, tag, ser_tags, input, de_tags, de_fields, stack, ret, pc, arg>>

\* Option<T>, and the unit value of a method that returns nothing
None == <<>>
Some(x) == <<x>>

-----------------------------------------------------------------------------
(* JceType, src/types.rs *)

I8 == 0
I16 == 1
I32 == 2
I64 == 3
F32 == 4
F64 == 5
String1 == 6
String4 == 7
Map == 8
List == 9
StructBegin == 10
StructEnd == 11
Zero == 12
Bytes == 13

JceType == {I8, I16, I32, I64, F32, F64, String1, String4, Map, List,
            StructBegin, StructEnd, Zero, Bytes}

Byte == 0..255

\* Result<T>: Ok(v) with the bytes left, or Err(e) with the bytes left
Ok(v, rest) == [ok |-> TRUE, val |-> v, rest |-> rest]
Err(e, rest) == [ok |-> FALSE, err |-> e, rest |-> rest]

\* `match r { ... }` and `r?`: the arms F see the result r; with `?` an
\* error is returned as it is
Match(r, F(_)) == F(r)
AndThen(r, F(_)) == IF r.ok THEN F(r) ELSE r

\* impl TryFrom<u8> for JceType
TryFrom_Bad(value) ==
    IF value \in JceType THEN [ok |-> TRUE, val |-> value]
    ELSE [ok |-> TRUE, val |-> 13]
TryFrom(value) ==
    IF value \in JceType THEN [ok |-> TRUE, val |-> value]
    ELSE [ok |-> FALSE, err |-> "UnknownJceType"]

-----------------------------------------------------------------------------
(* Machine integers: casts, comparisons, to_be_bytes and from_be_bytes *)

SubSeqFrom(s, n) == SubSeq(s, n, Len(s))

\* the signed reading of an unsigned 8 / 16 bit pattern
Signed8(b) == IF b >= 128 THEN b - 256 ELSE b
Signed16(w) == IF w >= 32768 THEN w - 65536 ELSE w

\* `v as i8`, `v as i16`: truncation to the low bits
AsI8(v) == Signed8(v % 256)
AsI16(v) == Signed16(v % 65536)
\* `v as i32` of an i64
AsI32(v) == Signed16(v[3]) * 65536 + v[4]
\* `v as i64` of an i8 / i16 / i32: sign extension
AsI64_Bad(v) == <<0, 0, (v \div 65536) % 65536, v % 65536>>
AsI64(v) ==
    <<IF v < 0 THEN -1 ELSE 0, IF v < 0 THEN 65535 ELSE 0,
      (v \div 65536) % 65536, v % 65536>>

\* a <= b on i64
I64Le(a, b) ==
    \/ a[1] < b[1]
    \/ a[1] = b[1] /\ a[2] < b[2]
    \/ a[1] = b[1] /\ a[2] = b[2] /\ a[3] < b[3]
    \/ a[1] = b[1] /\ a[2] = b[2] /\ a[3] = b[3] /\ a[4] <= b[4]

I8_MIN == -128
I8_MAX == 127
I16_MIN == -32768
I16_MAX == 32767
I32_MIN_as_i64 == <<-1, 65535, 32768, 0>>
I32_MAX_as_i64 == <<0, 0, 32767, 65535>>

U16BE(w) == <<w \div 256, w % 256>>

i8_to_be_bytes(v) == <<v % 256>>
i16_to_be_bytes(v) == <<(v \div 256) % 256, v % 256>>
i32_to_be_bytes(v) ==
    <<(v \div 16777216) % 256, (v \div 65536) % 256, (v \div 256) % 256,
      v % 256>>
i64_to_be_bytes(v) ==
    U16BE(v[1] % 65536) \o U16BE(v[2]) \o U16BE(v[3]) \o U16BE(v[4])
u32_to_be_bytes(n) ==
    <<(n \div 16777216) % 256, (n \div 65536) % 256, (n \div 256) % 256,
      n % 256>>
\* f32 / f64 are kept as bit patterns: to_be_bytes writes the limbs in order
f32_to_be_bytes(v) == U16BE(v[1]) \o U16BE(v[2])
f64_to_be_bytes(v) == U16BE(v[1]) \o U16BE(v[2]) \o U16BE(v[3]) \o U16BE(v[4])

i8_from_be_bytes(buf) == Signed8(buf[1])
i16_from_be_bytes(buf) == Signed8(buf[1]) * 256 + buf[2]
i32_from_be_bytes(buf) ==
    Signed8(buf[1]) * 16777216 + buf[2] * 65536 + buf[3] * 256 + buf[4]
i64_from_be_bytes(buf) ==
    <<Signed8(buf[1]) * 256 + buf[2], buf[3] * 256 + buf[4],
      buf[5] * 256 + buf[6], buf[7] * 256 + buf[8]>>
u8_from_be_bytes(buf) == buf[1]
u32_from_be_bytes(buf) == <<buf[1] * 256 + buf[2], buf[3] * 256 + buf[4]>>
f32_from_be_bytes(buf) == <<buf[1] * 256 + buf[2], buf[3] * 256 + buf[4]>>
f64_from_be_bytes(buf) ==
    <<buf[1] * 256 + buf[2], buf[3] * 256 + buf[4],
      buf[5] * 256 + buf[6], buf[7] * 256 + buf[8]>>

-----------------------------------------------------------------------------
(* Jcebuilder, src/ser/builder.rs.  Every method maps the buffer b to the  *)
(* buffer after the call.                                                  *)

push_byte(b, byte) == Append(b, byte)

push_bytes(b, bs) == b \o bs

push_head_Bad(b, t, tp) ==
    IF t <= 15 THEN push_byte(b, ((t * 16) % 256) + tp)
    ELSE push_byte(push_byte(b, 240 + tp), t)
push_head(b, t, tp) ==
    IF t < 15 THEN push_byte(b, ((t * 16) % 256) + tp)
    ELSE push_byte(push_byte(b, 240 + tp), t)

Jcebuilder_zero(b, t) == push_head(b, t, Zero)

Jcebuilder_i8_Bad(b, t, v) ==
    push_bytes(push_head(b, t, I8), i8_to_be_bytes(v))
Jcebuilder_i8(b, t, v) ==
    IF v = 0 THEN Jcebuilder_zero(b, t)
    ELSE push_bytes(push_head(b, t, I8), i8_to_be_bytes(v))

Jcebuilder_i16_Bad(b, t, v) ==
    IF I8_MIN < v /\ v <= I8_MAX THEN Jcebuilder_i8(b, t, AsI8(v))
    ELSE push_bytes(push_head(b, t, I16), i16_to_be_bytes(v))
Jcebuilder_i16(b, t, v) ==
    IF I8_MIN <= v /\ v <= I8_MAX THEN Jcebuilder_i8(b, t, AsI8(v))
    ELSE push_bytes(push_head(b, t, I16), i16_to_be_bytes(v))

Jcebuilder_i32_Bad(b, t, v) ==
    push_bytes(push_head(b, t, I32), i32_to_be_bytes(v))
Jcebuilder_i32(b, t, v) ==
    IF I16_MIN <= v /\ v <= I16_MAX THEN Jcebuilder_i16(b, t, AsI16(v))
    ELSE push_bytes(push_head(b, t, I32), i32_to_be_bytes(v))

Jcebuilder_i64(b, t, v) ==
    IF I64Le(I32_MIN_as_i64, v) /\ I64Le(v, I32_MAX_as_i64)
    THEN Jcebuilder_i32(b, t, AsI32(v))
    ELSE push_bytes(push_head(b, t, I64), i64_to_be_bytes(v))

Jcebuilder_f32(b, t, v) == push_bytes(push_head(b, t, F32), f32_to_be_bytes(v))

Jcebuilder_f64(b, t, v) == push_bytes(push_head(b, t, F64), f64_to_be_bytes(v))

\* STRING_MAX_LENGTH = u32::MAX and BYTES_MAX_LENGTH = i32::MAX are beyond
\* every buffer of the model, so min(v.len(), MAX) is v.len() and &v[..n] is v.
Jcebuilder_str_Bad(b, t, v) ==
    IF Len(v) < 255
    THEN push_bytes(push_byte(push_head(b, t, String1), Len(v)), v)
    ELSE push_bytes(push_bytes(push_head(b, t, String4),
                               u32_to_be_bytes(Len(v))), v)
Jcebuilder_str(b, t, v) ==
    IF Len(v) <= 255
    THEN push_bytes(push_byte(push_head(b, t, String1), Len(v)), v)
    ELSE push_bytes(push_bytes(push_head(b, t, String4),
                               u32_to_be_bytes(Len(v))), v)

Jcebuilder_map_begin(b, t, len) == Jcebuilder_i32(push_head(b, t, Map), 0, len)

Jcebuilder_list_begin(b, t, len) ==
    Jcebuilder_i32(push_head(b, t, List), 0, len)

Jcebuilder_struct_begin(b, t) == push_head(b, t, StructBegin)

Jcebuilder_struct_end(b) == push_head(b, 0, StructEnd)

Jcebuilder_bytes_Bad(b, t, v) ==
    push_bytes(Jcebuilder_i32(push_head(b, t, Bytes), 0, Len(v)), v)
Jcebuilder_bytes(b, t, v) ==
    push_bytes(Jcebuilder_i32(push_head(push_head(b, t, Bytes), 0, I8),
                              0, Len(v)), v)

-----------------------------------------------------------------------------
(* JceParser, src/de/parser.rs.  Every method maps the remaining bytes b   *)
(* to a Result that also carries the bytes remaining after the call, on    *)
(* success and on failure.                                                 *)

\* a usize that may exceed TLC's integers is a pair of 16-bit limbs; every
\* buffer of the model is shorter than 65536 bytes
UsizeFromU8(n) == <<0, n>>
UsizeFromU32(l) == l
UsizeFromNat(n) == <<n \div 65536, n % 65536>>
UsizeLe(l, n) == l[1] = 0 /\ l[2] <= n

\* std::str::from_utf8(buf).is_ok(): every byte is the first byte of a
\* well-formed character or one of the continuation bytes that character
\* calls for
Utf8Width(first) ==
    IF first <= 127 THEN 1
    ELSE IF first \in 194..223 THEN 2
    ELSE IF first \in 224..239 THEN 3
    ELSE IF first \in 240..244 THEN 4
    ELSE 0

Utf8Valid(buf) ==
    LET IsCont(i) == buf[i] \in 128..191
        Second(first) ==
            CASE first = 224 -> 160..191
              [] first = 237 -> 128..159
              [] first = 240 -> 144..191
              [] first = 244 -> 128..143
              [] OTHER -> 128..191
        Starts(i) ==
            /\ Utf8Width(buf[i]) >= 1
            /\ i + Utf8Width(buf[i]) - 1 <= Len(buf)
            /\ Utf8Width(buf[i]) >= 2 => buf[i + 1] \in Second(buf[i])
            /\ \A j \in (i + 2)..(i + Utf8Width(buf[i]) - 1) : IsCont(j)
        Covered(j) ==
            \E i \in (j - 3)..(j - 1) :
                /\ i >= 1
                /\ Utf8Width(buf[i]) >= j - i + 1
                /\ \A k \in (i + 1)..(j - 1) : IsCont(k)
    IN  \A i \in 1..Len(buf) : IF IsCont(i) THEN Covered(i) ELSE Starts(i)

JceParser_done(b) == Len(b) = 0

pick_type(b) ==
    IF Len(b) >= 1
    THEN LET tp == TryFrom(b[1] % 16)
         IN  IF tp.ok THEN Ok(tp.val, b) ELSE Err(tp.err, b)
    ELSE Err("NotEnoughtBytes", b)

pick_head_Bad(b) ==
    IF Len(b) >= 1
    THEN LET t == b[1] \div 16
             tp == TryFrom(b[1] % 16)
         IN  IF ~tp.ok THEN Err(tp.err, b)
             ELSE IF t # 15 THEN Ok(<<t, tp.val>>, SubSeqFrom(b, 2))
             ELSE IF Len(b) >= 2 THEN Ok(<<b[2], tp.val>>, SubSeqFrom(b, 3))
             ELSE Err("NotEnoughtBytes", b)
    ELSE Err("NotEnoughtBytes", b)
pick_head(b) ==
    IF Len(b) >= 1
    THEN LET t == b[1] \div 16
             tp == TryFrom(b[1] % 16)
         IN  IF ~tp.ok THEN Err(tp.err, b)
             ELSE IF t # 15 THEN Ok(<<t, tp.val>>, b)
             ELSE IF Len(b) >= 2 THEN Ok(<<b[2], tp.val>>, b)
             ELSE Err("NotEnoughtBytes", b)
    ELSE Err("NotEnoughtBytes", b)

pick_tag(b) ==
    AndThen(pick_head(b), LAMBDA h : Ok(h.val[1], b))

get_head_Bad(b) ==
    AndThen(pick_head(b), LAMBDA h : Ok(h.val, SubSeqFrom(b, 2)))
get_head(b) ==
    AndThen(pick_head(b), LAMBDA h :
        IF h.val[1] < 15 THEN Ok(h.val, SubSeqFrom(b, 2))
        ELSE Ok(h.val, SubSeqFrom(b, 3)))

get_bytes(b, len) ==
    IF UsizeLe(len, Len(b))
    THEN Ok(SubSeq(b, 1, len[2]), SubSeqFrom(b, len[2] + 1))
    ELSE Err("NotEnoughtBytes", b)

get_bytes_fixed(b, N) ==
    IF N <= Len(b) THEN Ok(SubSeq(b, 1, N), SubSeqFrom(b, N + 1))
    ELSE Err("NotEnoughtBytes", b)

\* `f32::from_be_bytes(buf) as f64`: the value of the f32, promoted
F32AsF64(buf) == [promoted |-> f32_from_be_bytes(buf)]

\* the conversion applied to the bytes read: T::from_be_bytes(buf) as U
FromBE(conv, buf) ==
    CASE conv = "i8" -> i8_from_be_bytes(buf)
      [] conv = "i16" -> i16_from_be_bytes(buf)
      [] conv = "i32" -> i32_from_be_bytes(buf)
      [] conv = "i64" -> i64_from_be_bytes(buf)
      [] conv = "i8 as i64" -> AsI64(i8_from_be_bytes(buf))
      [] conv = "i16 as i64" -> AsI64(i16_from_be_bytes(buf))
      [] conv = "i32 as i64" -> AsI64(i32_from_be_bytes(buf))
      [] conv = "f32" -> f32_from_be_bytes(buf)
      [] conv = "f64" -> f64_from_be_bytes(buf)
      [] conv = "f32 as f64" -> F32AsF64(buf)

\* `let buf = self.get_bytes_fixed()?; Ok(T::from_be_bytes(buf) as U)`
ReadFixed(b, N, conv) ==
    AndThen(get_bytes_fixed(b, N), LAMBDA buf :
        Ok(FromBE(conv, buf.val), buf.rest))

JceParser_i8(b) ==
    AndThen(get_head(b), LAMBDA h :
        IF h.val[2] = Zero THEN Ok(0, h.rest)
        ELSE IF h.val[2] = I8 THEN ReadFixed(h.rest, 1, "i8")
        ELSE Err("WrongType", h.rest))

JceParser_i16_Bad(b) ==
    AndThen(get_head(b), LAMBDA h :
        IF h.val[2] = Zero THEN Ok(0, h.rest)
        ELSE IF h.val[2] = I8 THEN ReadFixed(h.rest, 1, "i8")
        ELSE IF h.val[2] = I16 THEN ReadFixed(h.rest, 2, "i16")
        ELSE IF h.val[2] = I32 THEN ReadFixed(h.rest, 4, "i16")
        ELSE Err("WrongType", h.rest))
JceParser_i16(b) ==
    AndThen(get_head(b), LAMBDA h :
        IF h.val[2] = Zero THEN Ok(0, h.rest)
        ELSE IF h.val[2] = I8 THEN ReadFixed(h.rest, 1, "i8")
        ELSE IF h.val[2] = I16 THEN ReadFixed(h.rest, 2, "i16")
        ELSE Err("WrongType", h.rest))

JceParser_i32(b) ==
    AndThen(get_head(b), LAMBDA h :
        IF h.val[2] = Zero THEN Ok(0, h.rest)
        ELSE IF h.val[2] = I8 THEN ReadFixed(h.rest, 1, "i8")
        ELSE IF h.val[2] = I16 THEN ReadFixed(h.rest, 2, "i16")
        ELSE IF h.val[2] = I32 THEN ReadFixed(h.rest, 4, "i32")
        ELSE Err("WrongType", h.rest))

JceParser_i64(b) ==
    AndThen(get_head(b), LAMBDA h :
        IF h.val[2] = Zero THEN Ok(AsI64(0), h.rest)
        ELSE IF h.val[2] = I8 THEN ReadFixed(h.rest, 1, "i8 as i64")
        ELSE IF h.val[2] = I16 THEN ReadFixed(h.rest, 2, "i16 as i64")
        ELSE IF h.val[2] = I32 THEN ReadFixed(h.rest, 4, "i32 as i64")
        ELSE IF h.val[2] = I64 THEN ReadFixed(h.rest, 8, "i64")
        ELSE Err("WrongType", h.rest))

JceParser_f32(b) ==
    AndThen(get_head(b), LAMBDA h :
        IF h.val[2] = Zero THEN Ok(<<0, 0>>, h.rest)
        ELSE IF h.val[2] = F32 THEN ReadFixed(h.rest, 4, "f32")
        ELSE Err("WrongType", h.rest))

JceParser_f64(b) ==
    AndThen(get_head(b), LAMBDA h :
        IF h.val[2] = Zero THEN Ok(<<0, 0, 0, 0>>, h.rest)
        ELSE IF h.val[2] = F32 THEN ReadFixed(h.rest, 4, "f32 as f64")
        ELSE IF h.val[2] = F64 THEN ReadFixed(h.rest, 8, "f64")
        ELSE Err("WrongType", h.rest))

\* the String1 / String4 arm shared by str_small, str_big and str: a length
\* of N bytes, the payload, and its UTF-8 check
ReadStr(b, N) ==
    AndThen(get_bytes_fixed(b, N), LAMBDA l :
        AndThen(get_bytes(l.rest,
                          IF N = 1 THEN UsizeFromU8(u8_from_be_bytes(l.val))
                          ELSE UsizeFromU32(u32_from_be_bytes(l.val))),
                LAMBDA buf :
                    IF Utf8Valid(buf.val) THEN buf
                    ELSE Err("StringIsNotUtf8", buf.rest)))

str_small(b) ==
    AndThen(get_head(b), LAMBDA h :
        IF h.val[2] = Zero THEN Ok(<<>>, h.rest)
        ELSE IF h.val[2] = String1 THEN ReadStr(h.rest, 1)
        ELSE Err("WrongType", h.rest))

str_big(b) ==
    AndThen(get_head(b), LAMBDA h :
        IF h.val[2] = Zero THEN Ok(<<>>, h.rest)
        ELSE IF h.val[2] = String4 THEN ReadStr(h.rest, 4)
        ELSE Err("WrongType", h.rest))

JceParser_str(b) ==
    AndThen(get_head(b), LAMBDA h :
        IF h.val[2] = Zero THEN Ok(<<>>, h.rest)
        ELSE IF h.val[2] = String1 THEN ReadStr(h.rest, 1)
        ELSE IF h.val[2] = String4 THEN ReadStr(h.rest, 4)
        ELSE Err("WrongType", h.rest))

\* `match self.i32()?.try_into() { Ok(val) => Ok(val), Err(_) => WrongLength }`
ReadLen(b) ==
    AndThen(JceParser_i32(b), LAMBDA n :
        IF n.val >= 0 THEN n
        ELSE Err("WrongLength", n.rest))

JceParser_map(b) ==
    AndThen(get_head(b), LAMBDA h :
        IF h.val[2] = Zero THEN Ok(0, h.rest)
        ELSE IF h.val[2] = Map THEN ReadLen(h.rest)
        ELSE Err("WrongType", h.rest))

JceParser_list_Bad(b) ==
    AndThen(get_head(b), LAMBDA h :
        IF h.val[2] = Zero THEN Ok(0, h.rest)
        ELSE IF h.val[2] \in {List, Map} THEN ReadLen(h.rest)
        ELSE Err("WrongType", h.rest))
JceParser_list(b) ==
    AndThen(get_head(b), LAMBDA h :
        IF h.val[2] = Zero THEN Ok(0, h.rest)
        ELSE IF h.val[2] = List THEN ReadLen(h.rest)
        ELSE Err("WrongType", h.rest))

JceParser_struct_begin(b) ==
    AndThen(get_head(b), LAMBDA h :
        IF h.val[2] = StructBegin THEN Ok(None, h.rest)
        ELSE Err("WrongType", h.rest))

JceParser_struct_end(b) ==
    AndThen(get_head(b), LAMBDA h :
        IF h.val[2] = StructEnd THEN Ok(None, h.rest)
        ELSE Err("WrongType", h.rest))

JceParser_zero_Bad(b) ==
    AndThen(get_head(b), LAMBDA h :
        IF h.val[2] = Zero THEN Ok(None, h.rest)
        ELSE Err("WrongType", b))
JceParser_zero(b) ==
    AndThen(get_head(b), LAMBDA h :
        IF h.val[2] = Zero THEN Ok(None, h.rest)
        ELSE Err("WrongType", h.rest))

JceParser_bytes(b) ==
    AndThen(get_head(b), LAMBDA h :
        IF h.val[2] = Zero THEN Ok(<<>>, h.rest)
        ELSE IF h.val[2] = Bytes
        THEN AndThen(get_head(h.rest), LAMBDA h2 :
                 IF h2.val[2] = I8
                 THEN AndThen(ReadLen(h2.rest), LAMBDA len :
                          get_bytes(len.rest, UsizeFromNat(len.val)))
                 ELSE Err("WrongType", h2.rest))
        ELSE Err("WrongType", h.rest))

RECURSIVE ignore(_)
RECURSIVE IgnoreTimes(_, _)
RECURSIVE IgnorePairs(_, _)
RECURSIVE IgnoreFields(_)

\* `for _ in 0..n { self.ignore()?; }`
IgnoreTimes(b, n) ==
    IF n = 0 THEN Ok(None, b)
    ELSE AndThen(ignore(b), LAMBDA r : IgnoreTimes(r.rest, n - 1))

\* a Map arm that skips one value for each pair
IgnorePairs_Bad(b, n) ==
    IF n = 0 THEN Ok(None, b)
    ELSE AndThen(ignore(b), LAMBDA k : IgnorePairs(k.rest, n - 1))

\* `for _ in 0..n { self.ignore()?; self.ignore()?; }`
IgnorePairs(b, n) ==
    IF n = 0 THEN Ok(None, b)
    ELSE AndThen(ignore(b), LAMBDA k :
             AndThen(ignore(k.rest), LAMBDA v :
                 IgnorePairs(v.rest, n - 1)))

\* the loop of the StructBegin arm
IgnoreFields(b) ==
    AndThen(pick_type(b), LAMBDA tp :
        IF tp.val = StructEnd THEN JceParser_struct_end(b)
        ELSE AndThen(ignore(b), LAMBDA r : IgnoreFields(r.rest)))

\* `self.i8().map(|_| ())` and its siblings: the read value is dropped
Unit(r) == IF r.ok THEN Ok(None, r.rest) ELSE r

\* the arm of `ignore` chosen by the type tp of the next head
IgnoreArm(tp, b) ==
    CASE tp = I8 -> Unit(JceParser_i8(b))
      [] tp = I16 -> Unit(JceParser_i16(b))
      [] tp = I32 -> Unit(JceParser_i32(b))
      [] tp = I64 -> Unit(JceParser_i64(b))
      [] tp = F32 -> Unit(JceParser_f32(b))
      [] tp = F64 -> Unit(JceParser_f64(b))
      [] tp = String1 -> Unit(str_small(b))
      [] tp = String4 -> Unit(str_big(b))
      [] tp = Map ->
           AndThen(JceParser_map(b), LAMBDA len :
               IgnorePairs(len.rest, len.val))
      [] tp = List ->
           AndThen(JceParser_list(b), LAMBDA len :
               IgnoreTimes(len.rest, len.val))
      [] tp = StructBegin ->
           AndThen(JceParser_struct_begin(b), LAMBDA r :
               IgnoreFields(r.rest))
      [] tp = StructEnd -> JceParser_struct_end(b)
      [] tp = Zero -> JceParser_zero(b)
      [] tp = Bytes -> Unit(JceParser_bytes(b))

ignore(b) ==
    AndThen(pick_type(b), LAMBDA tp : IgnoreArm(tp.val, b))

-----------------------------------------------------------------------------
(* Sample inputs.  The sets hold the boundary values of every width.       *)

MaxWrites == 2

TagSamples == {0, 1, 14, 15, 16, 255}

I8Samples == {-128, -1, 0, 1, 127}
I16Samples == I8Samples \cup {-32768, -129, 128, 255, 256, 32767}
I32Samples ==
    I16Samples \cup {-2147483647 - 1, -32769, 32768, 65535, 65536, 2147483647}
I64Samples ==
    {AsI64(v) : v \in I32Samples}
    \cup {<<-32768, 0, 0, 0>>, <<-1, 65535, 32767, 65535>>, <<-1, 0, 0, 0>>,
          <<0, 0, 32768, 0>>, <<0, 1, 0, 0>>, <<291, 17767, 35243, 52719>>,
          <<32767, 65535, 65535, 65535>>}

\* UTF-8 strings: empty, ASCII, two- and three-byte characters, and the
\* lengths around the String1 / String4 border
StrSamples ==
    {<<>>, <<97>>, <<49, 50, 51, 52>>, <<195, 169>>, <<226, 130, 172, 0>>,
     [i \in 1..255 |-> 127], [i \in 1..256 |-> 127], [i \in 1..300 |-> 97]}

\* byte strings: empty, short, and the lengths around the borders where the
\* written length changes its width
ByteArgs ==
    {<<>>, <<1, 2>>, <<0>>, [i \in 1..127 |-> 255], [i \in 1..128 |-> 0],
     [i \in 1..300 |-> 13]}

\* the integer arguments of the Jcebuilder methods i8, i16, i32 and i64;
\* the value is listed as an i64 and passed in the width of the method
IntArgs ==
    [op : {"i8"}, v : {AsI64(v) : v \in I8Samples}]
    \cup [op : {"i16"}, v : {AsI64(v) : v \in I16Samples}]
    \cup [op : {"i32"}, v : {AsI64(v) : v \in I32Samples}]
    \cup [op : {"i64"}, v : I64Samples]

-----------------------------------------------------------------------------
(* SpecBuilder: a Jcebuilder is created, written to, and the finished      *)
(* buffer is handed to a JceParser that peeks at its first header.         *)

Idle ==
    /\ tag = 0
    /\ ser_tags = {}
    /\ de_tags = {}
    /\ de_fields = None
    /\ stack = <<>>
IdleUnchanged == UNCHANGED <<tag, ser_tags, de_tags, de_fields, stack>>

\* Jcebuilder::new
BuilderInit ==
    /\ bytes = <<>>
    /\ input = <<>>
    /\ ret = None
    /\ pc = "new"
    /\ arg = [n |-> 0]
    /\ Idle

Writing == pc # "pick_head" /\ arg.n < MaxWrites

\* the first write of a run ranges over all samples, a later write over few
Choice(all, few) == IF arg.n = 0 THEN all ELSE few

Wrote(op, t, v, b) ==
    /\ bytes' = b
    /\ pc' = op
    /\ arg' = [n |-> arg.n + 1, op |-> op, t |-> t, v |-> v, before |-> bytes,
               first |-> IF arg.n = 0 THEN [op |-> op, t |-> t, v |-> v]
                         ELSE arg.first]
    /\ UNCHANGED <<input, ret>>
    /\ IdleUnchanged

Build_push_head ==
    /\ Writing
    /\ \E t \in Choice(0..255, {15}), tp \in Choice(JceType, {StructEnd}) :
          Wrote("push_head", t, tp, push_head(bytes, t, tp))

Build_int ==
    /\ Writing
    /\ \E t \in Choice(TagSamples, {0, 15}),
          a \in Choice(IntArgs, {[op |-> "i64", v |-> AsI64(0)],
                                 [op |-> "i16", v |-> AsI64(-129)]}) :
          /\ arg.n = 0 \/ (t = 0 <=> a.op = "i64")
          /\ Wrote(a.op, t, a.v,
                CASE a.op = "i8" -> Jcebuilder_i8(bytes, t, AsI32(a.v))
                  [] a.op = "i16" -> Jcebuilder_i16(bytes, t, AsI32(a.v))
                  [] a.op = "i32" -> Jcebuilder_i32(bytes, t, AsI32(a.v))
                  [] a.op = "i64" -> Jcebuilder_i64(bytes, t, a.v))

Build_str ==
    /\ Writing
    /\ \E t \in Choice(TagSamples, {15}), v \in Choice(StrSamples, {<<>>}) :
          Wrote("str", t, v, Jcebuilder_str(bytes, t, v))

Build_bytes ==
    /\ Writing
    /\ \E t \in Choice(TagSamples, {15}), v \in Choice(ByteArgs, {<<1, 2>>}) :
          Wrote("bytes", t, v, Jcebuilder_bytes(bytes, t, v))

Build_zero ==
    /\ Writing
    /\ \E t \in Choice(TagSamples, {0}) :
          Wrote("zero", t, None, Jcebuilder_zero(bytes, t))

\* builder.done(), JceParser::from_bytes(..), parser.pick_head()
PickHead ==
    /\ pc \notin {"new", "pick_head"}
    /\ input' = bytes
    /\ ret' = pick_head(bytes)
    /\ pc' = "pick_head"
    /\ UNCHANGED <<bytes, arg>>
    /\ IdleUnchanged

BuilderNext ==
    \/ Build_push_head
    \/ Build_int
    \/ Build_str
    \/ Build_bytes
    \/ Build_zero
    \/ PickHead

SpecBuilder == BuilderInit /\ [][BuilderNext]_vars

\* the bytes the last write appended to the buffer
Appended == SubSeqFrom(bytes, Len(arg.before) + 1)

\* the header of the wire format: one byte for a tag up to 14, else two
Header(t, tp) == IF t <= 14 THEN <<t * 16 + tp>> ELSE <<240 + tp, t>>

\* the 8 bytes of the big-endian two's complement form of an i64
TwosComplement(v) ==
    LET w1 == IF v[1] < 0 THEN v[1] + 65536 ELSE v[1]
    IN  <<w1 \div 256, w1 % 256, v[2] \div 256, v[2] % 256,
          v[3] \div 256, v[3] % 256, v[4] \div 256, v[4] % 256>>

LastBytes(s, w) == SubSeq(s, Len(s) - w + 1, Len(s))

\* the w low bytes hold the value: the dropped bytes repeat the sign bit
FitsWidth(v, w) ==
    LET tc == TwosComplement(v)
        sign == IF tc[8 - w + 1] >= 128 THEN 255 ELSE 0
    IN  \A i \in 1..(8 - w) : tc[i] = sign

MinWidth(v) == CHOOSE w \in {1, 2, 4, 8} :
    FitsWidth(v, w) /\ \A u \in {1, 2, 4, 8} : FitsWidth(v, u) => w <= u

WidthType(w) == CASE w = 1 -> I8 [] w = 2 -> I16 [] w = 4 -> I32 [] w = 8 -> I64

IsIntOp == pc \in {"i8", "i16", "i32", "i64"}

\* C2: an integer write appends the header-only Zero when the value is 0,
\* and otherwise the header of the narrowest integer type whose signed range
\* holds the value, followed by exactly that many big-endian two's
\* complement bytes.
C2_Narrowest ==
    IsIntOp =>
        LET v == arg.v
            w == MinWidth(v)
        IN  Appended =
                IF v = <<0, 0, 0, 0>> THEN Header(arg.t, Zero)
                ELSE Header(arg.t, WidthType(w))
                     \o LastBytes(TwosComplement(v), w)

C2_Witness ==
    /\ pc = "i64"
    /\ arg.v = <<-1, 65535, 65535, 65407>>
    /\ arg.t = 15
    /\ Appended = <<241, 15, 255, 127>>

\* C4 as stated: the integer 0, the empty string and none are each written
\* as the header-only Zero form (a single byte for a tag up to 14).
C4_AllZeroForm ==
    \/ IsIntOp /\ arg.v = <<0, 0, 0, 0>>
    \/ pc = "str" /\ arg.v = <<>>
    \/ pc = "zero"
    => Appended = Header(arg.t, Zero)

\* C4 amended: the integer 0 and none are written as the header-only Zero
\* form; the empty string is written as a String1 header and the length
\* byte 0.
C4_ZeroForm ==
    /\ \/ IsIntOp /\ arg.v = <<0, 0, 0, 0>>
       \/ pc = "zero"
       => Appended = Header(arg.t, Zero)
    /\ pc = "str" /\ arg.v = <<>> => Appended = Header(arg.t, String1) \o <<0>>

C4_Witness ==
    /\ pc = "i64"
    /\ arg.v = <<0, 0, 0, 0>>
    /\ arg.t = 0
    /\ arg.before = <<246, 15, 0>>
    /\ bytes = <<246, 15, 0, 12>>

\* C10: push_head writes one byte (tag<<4 | type) for a tag up to 14 and
\* the two bytes (0xF0 | type, tag) for a tag from 15 on, and pick_head on
\* these bytes returns the tag and the type.
C10_HeadRoundTrip ==
    /\ pc = "push_head" => Appended = Header(arg.t, arg.v)
    /\ pc = "pick_head" /\ arg.first.op = "push_head"
       => ret = Ok(<<arg.first.t, arg.first.v>>, bytes)

C10_Witness ==
    /\ pc = "pick_head"
    /\ arg.first.op = "push_head"
    /\ arg.first.t = 15
    /\ arg.first.v = StructEnd
    /\ arg.n = 1
    /\ bytes = <<251, 15>>
    /\ ret.ok

\* the first write of a run was bytes(0, [0x01, 0x02]) on the empty buffer
WroteOneTwo ==
    pc = "bytes" /\ arg.n = 1 /\ arg.t = 0 /\ arg.v = <<1, 2>>

\* C12 as stated: the byte string [0x01, 0x02] under tag 0 is written as
\* 0D 00 00000002 0102, the length taking four bytes.
C12_FourByteLength ==
    WroteOneTwo => bytes = <<13, 0, 0, 0, 0, 2, 1, 2>>

\* C12 amended: the byte string [0x01, 0x02] under tag 0 is written as
\* 0D 00 00 02 01 02: the Bytes header, the inner I8 header, the length 2 as
\* an I8 under tag 0 (header 00, byte 02), and the two bytes.
C12_NarrowedLength ==
    WroteOneTwo => bytes = <<13, 0, 0, 2, 1, 2>>

C12_Witness ==
    /\ WroteOneTwo
    /\ arg.before = <<>>
    /\ Len(bytes) = 6

\* the length n written through the integer-narrowing path under tag 0
NarrowedLength(n) ==
    IF n = 0 THEN Header(0, Zero)
    ELSE Header(0, WidthType(MinWidth(AsI64(n))))
         \o LastBytes(TwosComplement(AsI64(n)), MinWidth(AsI64(n)))

\* C13: bytes(tag, b) appends the Bytes header under tag, one inner header
\* byte of type I8 with tag 0, the length of b in the narrowed integer form
\* under tag 0 (the Zero header for an empty b), and then b itself.
C13_BytesLayout ==
    pc = "bytes" =>
        Appended = Header(arg.t, Bytes) \o <<I8>>
                   \o NarrowedLength(Len(arg.v)) \o arg.v

C13_Witness ==
    /\ pc = "bytes"
    /\ arg.t = 15
    /\ Len(arg.v) = 128
    /\ SubSeq(Appended, 1, 6) = <<240 + Bytes, 15, I8, I16, 0, 128>>

\* C15: str(tag, s) appends a String1 header and a one-byte length when s
\* has at most 255 bytes, and a String4 header and a four-byte big-endian
\* length from 256 bytes on; the length written is the number of payload
\* bytes after it.
C15_StringLength ==
    pc = "str" =>
        LET n == Len(arg.v)
            h == Len(Header(arg.t, String1))
        IN  IF n <= 255
            THEN /\ SubSeq(Appended, 1, h + 1) = Header(arg.t, String1) \o <<n>>
                 /\ Len(Appended) = h + 1 + n
                 /\ SubSeqFrom(Appended, h + 2) = arg.v
            ELSE /\ SubSeq(Appended, 1, h + 4)
                      = Header(arg.t, String4)
                        \o <<0, 0, n \div 256, n % 256>>
                 /\ Len(Appended) = h + 4 + n
                 /\ SubSeqFrom(Appended, h + 5) = arg.v

C15_Witness ==
    /\ pc = "str"
    /\ arg.t = 14
    /\ Len(arg.v) = 256
    /\ SubSeq(Appended, 1, 5) = <<224 + String4, 0, 0, 1, 0>>

-----------------------------------------------------------------------------
(* Wire data the parser is given.  WireLeaf, WireOne and WireTwo are       *)
(* encodings that follow the grammar of the format (a header in the form   *)
(* of its tag, then the payload of its type), built without the builder:   *)
(* integers and lengths appear in every width that holds them, inner tags  *)
(* are arbitrary.  RawInputs is a header byte pattern of every kind, also  *)
(* unknown types, cut headers and a two-byte header with a tag below 15,   *)
(* followed by payload bytes of every length.                              *)

MaxLen == 2
MaxCalls == 1

RECURSIVE Concat(_)
Concat(ss) == IF Len(ss) = 0 THEN <<>> ELSE Head(ss) \o Concat(Tail(ss))

\* sequences of length 0..n over the set S
SeqsUpTo(S, n) == UNION {[1..k -> S] : k \in 0..n}

\* a count or length n as the format allows it: Zero, or an integer type
CountForms(n) ==
    (IF n = 0 THEN {<<Zero>>, <<I8, 0>>} ELSE {})
    \cup (IF n \in 1..127 THEN {<<I8, n>>, <<16 + I16, 0, n>>} ELSE {})
    \cup {<<240 + I32, 200, 0, 0, n \div 256, n % 256>>}

WireInts ==
    {<<I8, 18>>, <<16 + I8, 128>>, <<I8, 0>>,
     <<I16, 52, 86>>, <<240 + I16, 15, 255, 127>>, <<I16, 0, 5>>,
     <<I32, 18, 52, 86, 120>>, <<32 + I32, 255, 255, 255, 255>>,
     <<I64, 1, 35, 69, 103, 137, 171, 205, 239>>,
     <<240 + I64, 255, 128, 0, 0, 0, 0, 0, 0, 0>>}

WireLeaf ==
    WireInts
    \cup {<<Zero>>, <<240 + Zero, 77>>,
          <<F32, 18, 52, 86, 120>>, <<80 + F32, 127, 192, 0, 0>>,
          <<F64, 1, 35, 69, 103, 137, 171, 205, 239>>,
          <<String1, 0>>, <<16 + String1, 1, 97>>, <<String1, 2, 195, 169>>,
          <<240 + String1, 255, 3, 11, 10, 12>>,
          <<String4, 0, 0, 0, 0>>, <<String4, 0, 0, 0, 2, 97, 98>>}
    \cup {<<Bytes>> \o <<I8>> \o c \o r :
            c \in CountForms(0), r \in {<<>>}}
    \cup {<<240 + Bytes, 16>> \o <<112 + I8>> \o c \o r :
            c \in CountForms(2), r \in {<<1, 2>>, <<11, 11>>}}

\* the leaves nested inside lists, maps and records
WireInner ==
    {<<240 + I16, 15, 255, 127>>, <<Zero>>, <<16 + String1, 1, 97>>,
     <<Bytes, I8, I8, 2, 11, 11>>}

WireList(t, items) ==
    {Header(t, List) \o c \o Concat(items) : c \in CountForms(Len(items))}

WireMap(t, items) ==
    IF Len(items) % 2 = 0
    THEN {Header(t, Map) \o c \o Concat(items) :
            c \in CountForms(Len(items) \div 2)}
    ELSE {}

WireStruct(t, items) ==
    {Header(t, StructBegin) \o Concat(items) \o Header(e, StructEnd) :
        e \in {0, 200}}

WireNest(items) ==
    WireList(0, items) \cup WireMap(15, items) \cup WireStruct(200, items)

WireOne == UNION {WireNest(items) : items \in SeqsUpTo(WireInner, MaxLen)}

WireOneInner ==
    {<<List, I8, 1, I8, 18>>, <<Map, I8, 1, Zero, 16 + Zero>>,
     <<16 + StructBegin, I8, 18, 16 + Zero, 59>>,
     <<240 + StructBegin, 15, 240 + List, 15, 16 + I16, 0, 1, Zero, StructEnd>>}

WireTwo == UNION {WireNest(items) : items \in SeqsUpTo(WireOneInner, MaxLen)}

WellFormed == WireLeaf \cup WireOne \cup WireTwo

Suffixes == {<<>>, <<StructEnd>>, <<16 + I8, 18>>}

RawHeads ==
    {<<t * 16 + tp>> : t \in {0, 14, 15}, tp \in 0..15}
    \cup {<<240 + tp, t>> : tp \in 0..15, t \in {5, 15, 200}}

RawPayloads ==
    {<<>>, <<0>>, <<127>>, <<128>>,
     <<0, 128>>, <<127, 255>>, <<128, 0>>, <<255, 127>>, <<255, 255>>,
     <<0, 0, 128, 0>>, <<127, 255, 255, 255>>, <<128, 0, 0, 0>>,
     <<255, 255, 127, 255>>, <<1, 2, 3, 4, 5>>,
     <<0, 0, 0, 0, 128, 0, 0, 0>>, <<128, 0, 0, 0, 0, 0, 0, 0>>,
     <<255, 255, 255, 255, 127, 255, 255, 255>>,
     <<1, 35, 69, 103, 137, 171, 205, 239, 18>>}

RawInputs == {h \o q : h \in RawHeads, q \in RawPayloads}

ParserCases ==
    {[e |-> e, s |-> x, wf |-> TRUE] : e \in WellFormed, x \in Suffixes}
    \cup {[e |-> e, s |-> <<>>, wf |-> FALSE] : e \in RawInputs}

-----------------------------------------------------------------------------
(* SpecParser: a JceParser is created over the given bytes and its         *)
(* consuming methods are called on it.                                     *)

\* JceParser::from_bytes
ParserInit ==
    /\ \E c \in ParserCases :
          /\ arg = [e |-> c.e, s |-> c.s, wf |-> c.wf, calls |-> 0,
                    before |-> <<>>]
          /\ input = c.e \o c.s
    /\ bytes = <<>>
    /\ ret = None
    /\ pc = "from_bytes"
    /\ Idle

Called(op, r) ==
    /\ arg.calls < MaxCalls
    /\ input' = r.rest
    /\ ret' = r
    /\ pc' = op
    /\ arg' = [arg EXCEPT !.calls = @ + 1, !.before = input]
    /\ UNCHANGED bytes
    /\ IdleUnchanged

Call_i8 == Called("i8", JceParser_i8(input))

Call_i16 == Called("i16", JceParser_i16(input))

Call_i32 == Called("i32", JceParser_i32(input))

Call_i64 == Called("i64", JceParser_i64(input))

Call_ignore == Called("ignore", ignore(input))

ParserNext ==
    \/ Call_i8
    \/ Call_i16
    \/ Call_i32
    \/ Call_i64
    \/ Call_ignore

SpecParser == ParserInit /\ [][ParserNext]_vars

\* the bytes start with the header of tag t and type tp, in the form the
\* format gives a header of that tag
HasHeader(b) ==
    /\ Len(b) >= 1
    /\ b[1] % 16 \in JceType
    /\ b[1] \div 16 = 15 => Len(b) >= 2 /\ b[2] >= 15
HeaderLen(b) == IF b[1] \div 16 = 15 THEN 2 ELSE 1
HeaderType(b) == b[1] % 16

IntWidth(tp) == CASE tp = I8 -> 1 [] tp = I16 -> 2 [] tp = I32 -> 4 [] tp = I64 -> 8

\* the big-endian two's complement form of x in w bytes, w up to 4
RECURSIVE Pow256(_)
Pow256(k) == IF k = 0 THEN 1 ELSE 256 * Pow256(k - 1)
IntBytes(x, w) == [i \in 1..w |-> (x \div Pow256(w - i)) % 256]

\* the stored integer q extended to w bytes by its sign
SignExtend(q, w) ==
    [i \in 1..(w - Len(q)) |-> IF q[1] >= 128 THEN 255 ELSE 0] \o q

\* the result, an iN of w bytes, as its w two's complement bytes
ResultBytes(v, w) == IF w = 8 THEN TwosComplement(v) ELSE IntBytes(v, w)

TargetWidth == CASE pc = "i8" -> 1 [] pc = "i16" -> 2 [] pc = "i32" -> 4
                 [] pc = "i64" -> 8

\* C3: the reader of width N returns 0 on a Zero header, the stored value
\* sign-extended to N bits on a stored integer of width up to N, and fails
\* with WrongType on a wider stored integer and on every other wire type.
C3_Widening ==
    pc \in {"i8", "i16", "i32", "i64"} /\ HasHeader(arg.before) =>
        LET b == arg.before
            tp == HeaderType(b)
            N == TargetWidth
            q == SubSeq(b, HeaderLen(b) + 1, HeaderLen(b) + IntWidth(tp))
        IN  /\ tp = Zero =>
                ret.ok /\ ResultBytes(ret.val, N) = [i \in 1..N |-> 0]
            /\ tp \in {I8, I16, I32, I64} /\ IntWidth(tp) <= N
               /\ Len(b) >= HeaderLen(b) + IntWidth(tp) =>
                ret.ok /\ ResultBytes(ret.val, N) = SignExtend(q, N)
            /\ \/ tp \in {I8, I16, I32, I64} /\ IntWidth(tp) > N
               \/ tp \notin {I8, I16, I32, I64, Zero}
               => ~ret.ok /\ ret.err = "WrongType"

C3_Witness ==
    /\ pc = "i64"
    /\ arg.before = <<240 + I16, 200, 255, 127>>
    /\ ret.ok
    /\ ret.val = <<-1, 65535, 65535, 65407>>
    /\ input = <<>>

\* C9: ignore on a well-formed encoding of one value followed by any bytes
\* succeeds and leaves exactly the bytes that follow the value.
C9_IgnoreOne ==
    pc = "ignore" /\ arg.wf /\ arg.calls = 1 => ret.ok /\ input = arg.s

C9_Witness ==
    /\ pc = "ignore"
    /\ arg.calls = 1
    /\ arg.e = <<240 + StructBegin, 200,
                 240 + StructBegin, 15, 240 + List, 15, 16 + I16, 0, 1, Zero,
                 StructEnd, 240 + StructEnd, 200>>
    /\ arg.s = <<StructEnd>>
    /\ ret.ok
    /\ input = <<StructEnd>>

-----------------------------------------------------------------------------
(* SpecPeek: a JceParser is created over the given bytes; pick_tag,         *)
(* pick_type and pick_head are called on it, and then one consuming method. *)

MaxPeeks == 2

PeekOps == {"pick_tag", "pick_type", "pick_head"}

ReadOps ==
    {"i8", "i16", "i32", "i64", "f32", "f64", "str_small", "str_big", "str",
     "map", "list", "struct_begin", "struct_end", "zero", "bytes", "ignore"}

\* the consuming method named op, on the remaining bytes b
ReadOp(op, b) ==
    CASE op = "i8" -> JceParser_i8(b)
      [] op = "i16" -> JceParser_i16(b)
      [] op = "i32" -> JceParser_i32(b)
      [] op = "i64" -> JceParser_i64(b)
      [] op = "f32" -> JceParser_f32(b)
      [] op = "f64" -> JceParser_f64(b)
      [] op = "str_small" -> str_small(b)
      [] op = "str_big" -> str_big(b)
      [] op = "str" -> JceParser_str(b)
      [] op = "map" -> JceParser_map(b)
      [] op = "list" -> JceParser_list(b)
      [] op = "struct_begin" -> JceParser_struct_begin(b)
      [] op = "struct_end" -> JceParser_struct_end(b)
      [] op = "zero" -> JceParser_zero(b)
      [] op = "bytes" -> JceParser_bytes(b)
      [] op = "ignore" -> ignore(b)

\* what may follow a Map or List header: the counts 0, 2, 256, 65536 and
\* i32::MAX, the negative counts -1, -32768 and i32::MIN, in several widths,
\* an I64, a String1, and a count cut short
LengthSamples ==
    {<<Zero>>, <<I8, 0>>, <<I8, 2>>, <<I8, 255>>, <<16 + I16, 1, 0>>,
     <<I16, 128, 0>>, <<I32, 0, 1, 0, 0>>, <<I32, 127, 255, 255, 255>>,
     <<I32, 255, 255, 255, 255>>, <<I32, 128, 0, 0, 0>>,
     <<I64, 0, 0, 0, 0, 0, 0, 0, 2>>, <<String1, 0>>, <<I16, 1>>}

CountInputs ==
    {Header(t, tp) \o c \o q :
        t \in {1, 200}, tp \in {Map, List}, c \in LengthSamples,
        q \in {<<>>, <<18>>}}

\* every header byte (all 16 low nibbles) in both header forms, alone and
\* followed by payload bytes, the three-byte inputs of the examples, and
\* the Map and List headers with their counts
PeekInputs ==
    {h \o q : h \in RawHeads, q \in {<<>>, <<18>>, <<0, 2, 97, 98, 11>>}}
    \cup {<<>>, <<15, 10, 18>>, <<240, 15, 18>>, <<240, 10, 18>>,
          <<I8, 18, 16 + I16, 18, 52>>}
    \cup CountInputs

\* JceParser::from_bytes
PeekInit ==
    /\ \E e \in PeekInputs :
          /\ arg = [e |-> e, peeks |-> 0, calls |-> 0, before |-> <<>>]
          /\ input = e
    /\ bytes = <<>>
    /\ ret = None
    /\ pc = "from_bytes"
    /\ Idle

\* a method on &self that returned r
Peeked(op, r) ==
    /\ arg.calls = 0
    /\ arg.peeks < MaxPeeks
    /\ input' = r.rest
    /\ ret' = r
    /\ pc' = op
    /\ arg' = [arg EXCEPT !.peeks = @ + 1, !.before = input]
    /\ UNCHANGED bytes
    /\ IdleUnchanged

Pick_tag == Peeked("pick_tag", pick_tag(input))

Pick_type == Peeked("pick_type", pick_type(input))

Pick_head == Peeked("pick_head", pick_head(input))

\* one consuming method on &mut self
Read ==
    /\ arg.calls = 0
    /\ \E op \in ReadOps :
          /\ input' = ReadOp(op, input).rest
          /\ ret' = ReadOp(op, input)
          /\ pc' = op
    /\ arg' = [arg EXCEPT !.calls = 1, !.before = input]
    /\ UNCHANGED bytes
    /\ IdleUnchanged

PeekNext ==
    \/ Pick_tag
    \/ Pick_type
    \/ Pick_head
    \/ Read

SpecPeek == PeekInit /\ [][PeekNext]_vars

\* C11 as stated: on the bytes 0F 0A 12 the header is tag 10, type I8, and
\* the value read under it is 0x12.
C11_TagTen ==
    arg.e = <<15, 10, 18>> =>
        /\ pc = "pick_head" => ret.ok /\ ret.val = <<10, I8>>
        /\ pc = "i8" => ret.ok /\ ret.val = 18

\* C11 amended: on the bytes F0 0F 12 the header is tag 15, type I8, the
\* value read under it is 0x12 and nothing remains; on 0F 0A 12 the low
\* nibble 15 is no wire type and every call fails with UnknownJceType.
C11_TagFifteen ==
    /\ arg.e = <<240, 15, 18>> =>
          /\ pc = "pick_head" => ret = Ok(<<15, I8>>, arg.e)
          /\ pc = "i8" => ret = Ok(18, <<>>)
    /\ arg.e = <<15, 10, 18>> /\ pc \in PeekOps \cup ReadOps =>
          ~ret.ok /\ ret.err = "UnknownJceType"

C11_Witness ==
    /\ arg.e = <<240, 15, 18>>
    /\ pc = "i8"
    /\ arg.peeks = 1
    /\ ret.ok
    /\ input = <<>>

UnknownNibble(b) == Len(b) >= 1 /\ b[1] % 16 \in {14, 15}

C20_PeekFrame ==
    [][/\ pc' \in PeekOps => input' = input
       /\ pc' \in PeekOps /\ pc' = pc => ret' = ret
       /\ pc' \in ReadOps => ret' = ReadOp(pc', arg.e) /\ input' = ret'.rest
      ]_vars

C20_Witness ==
    /\ arg.e = <<I8, 18, 16 + I16, 18, 52>>
    /\ arg.peeks = MaxPeeks
    /\ pc = "i16"
    /\ ret = Ok(18, <<16 + I16, 18, 52>>)

-----------------------------------------------------------------------------
(* Value, src/value.rs: a pair <<kind, content>>.                          *)
(*   Zero: <<>>;  Int: an i64;  Float, Double: the bit pattern;            *)
(*   String: the UTF-8 bytes;  Bytes: the bytes;  List: the sequence of    *)
(*   its Values;  Map, Object: the sequence of the BTreeMap's <<key,       *)
(*   value>> pairs in ascending key order.                                 *)

Value_Zero == <<"Zero", <<>>>>
Value_Int(v) == <<"Int", v>>
Value_Float(v) == <<"Float", v>>
Value_Double(v) == <<"Double", v>>
Value_String(v) == <<"String", v>>
Value_Bytes(v) == <<"Bytes", v>>
Value_List(v) == <<"List", v>>
Value_Map(v) == <<"Map", v>>
Value_Object(v) == <<"Object", v>>

\* the rank of the variant in Ord for Value
Less == -1
Equal == 0
Greater == 1

CmpInt(a, b) == IF a < b THEN Less ELSE IF a > b THEN Greater ELSE Equal

\* Ord for a sequence of integers compared element by element, then by
\* length: i64 limbs, u32 / u64 bit patterns, str and Vec<u8>
RECURSIVE CmpInts(_, _)
CmpInts(a, b) ==
    IF Len(a) = 0 THEN (IF Len(b) = 0 THEN Equal ELSE Less)
    ELSE IF Len(b) = 0 THEN Greater
    ELSE IF Head(a) # Head(b) THEN CmpInt(Head(a), Head(b))
    ELSE CmpInts(Tail(a), Tail(b))

RECURSIVE Value_cmp(_, _)
RECURSIVE CmpValues(_, _)
RECURSIVE CmpEntries(_, _, _)

\* Ord for Vec<Value>
CmpValues(a, b) ==
    IF Len(a) = 0 THEN (IF Len(b) = 0 THEN Equal ELSE Less)
    ELSE IF Len(b) = 0 THEN Greater
    ELSE LET c == Value_cmp(Head(a), Head(b))
         IN  IF c # Equal THEN c ELSE CmpValues(Tail(a), Tail(b))

\* Ord for BTreeMap<K, Value>: the (key, value) pairs in order; the keys
\* are Values (object = FALSE) or u8 tags (object = TRUE)
CmpEntries(a, b, object) ==
    IF Len(a) = 0 THEN (IF Len(b) = 0 THEN Equal ELSE Less)
    ELSE IF Len(b) = 0 THEN Greater
    ELSE LET k == IF object THEN CmpInt(Head(a)[1], Head(b)[1])
                  ELSE Value_cmp(Head(a)[1], Head(b)[1])
             v == Value_cmp(Head(a)[2], Head(b)[2])
         IN  IF k # Equal THEN k
             ELSE IF v # Equal THEN v
             ELSE CmpEntries(Tail(a), Tail(b), object)

\* a Bytes arm that answers Less to every other variant
Value_cmp_Bad(a, b) ==
    CASE a[1] = "Zero" ->
           IF b[1] = "Zero" THEN Equal ELSE Less
      [] a[1] = "Int" ->
           IF b[1] = "Zero" THEN Greater
           ELSE IF b[1] = "Int" THEN CmpInts(a[2], b[2])
           ELSE Less
      [] a[1] = "Float" ->
           IF b[1] \in {"Zero", "Int"} THEN Greater
           ELSE IF b[1] = "Float" THEN CmpInts(a[2], b[2])
           ELSE Less
      [] a[1] = "Double" ->
           IF b[1] \in {"Zero", "Int", "Float"} THEN Greater
           ELSE IF b[1] = "Double" THEN CmpInts(a[2], b[2])
           ELSE Less
      [] a[1] = "String" ->
           IF b[1] \in {"Zero", "Int", "Float", "Double"} THEN Greater
           ELSE IF b[1] = "String" THEN CmpInts(a[2], b[2])
           ELSE Less
      [] a[1] = "Bytes" ->
           IF b[1] = "Bytes" THEN CmpInts(a[2], b[2])
           ELSE IF b[1] \in {"List", "Map", "Object"} THEN Less
           ELSE Less
      [] a[1] = "List" ->
           IF b[1] = "List" THEN CmpValues(a[2], b[2])
           ELSE IF b[1] \in {"Map", "Object"} THEN Less
           ELSE Greater
      [] a[1] = "Map" ->
           IF b[1] = "Map" THEN CmpEntries(a[2], b[2], FALSE)
           ELSE IF b[1] = "Object" THEN Less
           ELSE Greater
      [] a[1] = "Object" ->
           IF b[1] = "Object" THEN CmpEntries(a[2], b[2], TRUE)
           ELSE Greater
\* Ord::cmp for Value: one arm for each variant of self, matching on other
Value_cmp(a, b) ==
    CASE a[1] = "Zero" ->
           IF b[1] = "Zero" THEN Equal ELSE Less
      [] a[1] = "Int" ->
           IF b[1] = "Zero" THEN Greater
           ELSE IF b[1] = "Int" THEN CmpInts(a[2], b[2])
           ELSE Less
      [] a[1] = "Float" ->
           IF b[1] \in {"Zero", "Int"} THEN Greater
           ELSE IF b[1] = "Float" THEN CmpInts(a[2], b[2])
           ELSE Less
      [] a[1] = "Double" ->
           IF b[1] \in {"Zero", "Int", "Float"} THEN Greater
           ELSE IF b[1] = "Double" THEN CmpInts(a[2], b[2])
           ELSE Less
      [] a[1] = "String" ->
           IF b[1] \in {"Zero", "Int", "Float", "Double"} THEN Greater
           ELSE IF b[1] = "String" THEN CmpInts(a[2], b[2])
           ELSE Less
      [] a[1] = "Bytes" ->
           IF b[1] = "Bytes" THEN CmpInts(a[2], b[2])
           ELSE IF b[1] \in {"List", "Map", "Object"} THEN Less
           ELSE Greater
      [] a[1] = "List" ->
           IF b[1] = "List" THEN CmpValues(a[2], b[2])
           ELSE IF b[1] \in {"Map", "Object"} THEN Less
           ELSE Greater
      [] a[1] = "Map" ->
           IF b[1] = "Map" THEN CmpEntries(a[2], b[2], FALSE)
           ELSE IF b[1] = "Object" THEN Less
           ELSE Greater
      [] a[1] = "Object" ->
           IF b[1] = "Object" THEN CmpEntries(a[2], b[2], TRUE)
           ELSE Greater

\* PartialEq for Value: variant by variant, floats by to_bits
RECURSIVE Value_eq(_, _)
Value_eq(a, b) ==
    /\ a[1] = b[1]
    /\ CASE a[1] = "Zero" -> TRUE
         [] a[1] \in {"Int", "Float", "Double", "String", "Bytes"} -> a[2] = b[2]
         [] a[1] = "List" ->
              /\ Len(a[2]) = Len(b[2])
              /\ \A i \in 1..Len(a[2]) : Value_eq(a[2][i], b[2][i])
         [] a[1] = "Map" ->
              /\ Len(a[2]) = Len(b[2])
              /\ \A i \in 1..Len(a[2]) :
                    /\ Value_eq(a[2][i][1], b[2][i][1])
                    /\ Value_eq(a[2][i][2], b[2][i][2])
         [] a[1] = "Object" ->
              /\ Len(a[2]) = Len(b[2])
              /\ \A i \in 1..Len(a[2]) :
                    /\ a[2][i][1] = b[2][i][1]
                    /\ Value_eq(a[2][i][2], b[2][i][2])

\* BTreeMap::insert(key, value) on the ordered pairs m: a pair with an
\* equal key keeps its key and takes the new value
RECURSIVE BTreeMap_insert(_, _, _, _)
BTreeMap_insert(m, key, value, object) ==
    IF Len(m) = 0 THEN <<<<key, value>>>>
    ELSE LET c == IF object THEN CmpInt(key, Head(m)[1])
                  ELSE Value_cmp(key, Head(m)[1])
         IN  IF c = Less THEN <<<<key, value>>>> \o m
             ELSE IF c = Equal THEN <<<<Head(m)[1], value>>>> \o Tail(m)
             ELSE <<Head(m)>> \o BTreeMap_insert(Tail(m), key, value, object)

-----------------------------------------------------------------------------
(* Serializer, src/ser/serializer.rs.  A Serializer is [tag, builder]; a   *)
(* method maps it to a Result that carries the Serializer after the call.  *)

SerOk(s) == [ok |-> TRUE, ser |-> s]
SerErr(e, s) == [ok |-> FALSE, err |-> e, ser |-> s]

Serializer_new == [tag |-> 0, builder |-> <<>>]

serialize_i64(s, v) ==
    SerOk([s EXCEPT !.builder = Jcebuilder_i64(@, s.tag, v)])

\* a u64 is four 16-bit limbs, an i128 or u128 eight, the most significant
\* first; the first limb of a signed integer is signed.
\* `v <= std::i64::MAX as u64`, then `v as i64`
serialize_u64(s, v) ==
    IF v[1] <= 32767
    THEN serialize_i64(s, <<Signed16(v[1]), v[2], v[3], v[4]>>)
    ELSE SerErr("IntTooBig", s)

\* `v <= std::i64::MAX as i128`, then `v as i64`: the low 64 bits
serialize_i128(s, v) ==
    IF v[1] < 0 \/ (v[1] = 0 /\ v[2] = 0 /\ v[3] = 0 /\ v[4] = 0
                    /\ v[5] <= 32767)
    THEN serialize_i64(s, <<Signed16(v[5]), v[6], v[7], v[8]>>)
    ELSE SerErr("IntTooBig", s)

\* `v <= std::i64::MAX as u128`, then `v as i64`
serialize_u128(s, v) ==
    IF v[1] = 0 /\ v[2] = 0 /\ v[3] = 0 /\ v[4] = 0 /\ v[5] <= 32767
    THEN serialize_i64(s, <<Signed16(v[5]), v[6], v[7], v[8]>>)
    ELSE SerErr("IntTooBig", s)

serialize_f32(s, v) ==
    SerOk([s EXCEPT !.builder = Jcebuilder_f32(@, s.tag, v)])

serialize_f64(s, v) ==
    SerOk([s EXCEPT !.builder = Jcebuilder_f64(@, s.tag, v)])

\* a usize length as an integer: every buffer of the model is far shorter
\* than STRING_MAX_LENGTH, BYTES_MAX_LENGTH and i32::MAX
I32_MAX == 2147483647

serialize_str(s, v) ==
    IF Len(v) <= I32_MAX
    THEN SerOk([s EXCEPT !.builder = Jcebuilder_str(@, s.tag, v)])
    ELSE SerErr("StringTooLong", s)

serialize_bytes(s, v) ==
    IF Len(v) <= I32_MAX
    THEN SerOk([s EXCEPT !.builder = Jcebuilder_bytes(@, s.tag, v)])
    ELSE SerErr("BytesTooLong", s)

serialize_none(s) == SerOk([s EXCEPT !.builder = Jcebuilder_zero(@, s.tag)])

\* serialize_seq(Some(len))
serialize_seq(s, len) ==
    IF len <= I32_MAX
    THEN SerOk([s EXCEPT !.builder = Jcebuilder_list_begin(@, s.tag, len)])
    ELSE SerErr("SeqTooLong", s)

\* serialize_map(Some(len))
serialize_map(s, len) ==
    IF len <= I32_MAX
    THEN SerOk([s EXCEPT !.builder = Jcebuilder_map_begin(@, s.tag, len)])
    ELSE SerErr("MapTooLong", s)

\* the Serializer after serialize_struct; StructSerializer::new starts the
\* record with an empty tag set
serialize_struct(s) ==
    SerOk([s EXCEPT !.builder = Jcebuilder_struct_begin(@, s.tag)])

\* u8::to_string and STR_TABLE: the decimal digits of a tag, as ASCII
RECURSIVE to_string(_)
to_string(n) ==
    IF n < 10 THEN <<48 + n>> ELSE Append(to_string(n \div 10), 48 + (n % 10))

STR_TABLE == [k \in 0..255 |-> to_string(k)]

\* str::parse::<u8>: an optional '+', then one or more decimal digits whose
\* value is at most 255
RECURSIVE ParseDigits(_, _)
ParseDigits(str, acc) ==
    IF Len(str) = 0 THEN [ok |-> TRUE, val |-> acc]
    ELSE IF Head(str) \notin 48..57 THEN [ok |-> FALSE, err |-> "InvalidDigit"]
    ELSE IF acc * 10 + (Head(str) - 48) > 255
    THEN [ok |-> FALSE, err |-> "PosOverflow"]
    ELSE ParseDigits(Tail(str), acc * 10 + (Head(str) - 48))

parse(str) ==
    LET digits == IF Len(str) > 1 /\ Head(str) = 43 THEN Tail(str) ELSE str
    IN  IF Len(str) = 0 THEN [ok |-> FALSE, err |-> "Empty"]
        ELSE IF digits = <<43>> \/ digits = <<45>>
        THEN [ok |-> FALSE, err |-> "InvalidDigit"]
        ELSE ParseDigits(digits, 0)

\* StructSerializer::new: the record's own, empty set of written tags
StructSerializer_new_Bad(ser) == [ser |-> ser, tags |-> {ser.tag}]
StructSerializer_new(ser) == [ser |-> ser, tags |-> {}]

RECURSIVE Value_serialize(_, _)
RECURSIVE SerializeElements(_, _)
RECURSIVE SerializeEntries(_, _)
RECURSIVE SerializeFields(_, _)

\* `with tag = t { value.serialize(self)?; }`: the tag is set, the value
\* written, and the former tag restored only when the value succeeded
SerializeUnder_Bad(s, t, value) ==
    Value_serialize(value, [s EXCEPT !.tag = t])
SerializeUnder(s, t, value) ==
    LET r == Value_serialize(value, [s EXCEPT !.tag = t])
    IN  IF ~r.ok THEN r ELSE SerOk([r.ser EXCEPT !.tag = s.tag])

\* SerializeSeq::serialize_element
serialize_element(s, value) == SerializeUnder(s, 0, value)

\* SerializeMap::serialize_key
serialize_key(s, key) == SerializeUnder(s, 0, key)

\* SerializeMap::serialize_value
serialize_value_Bad(s, value) == SerializeUnder(s, 0, value)
serialize_value(s, value) == SerializeUnder(s, 1, value)

\* StructSerializer::serialize_field on the StructSerializer [ser, tags];
\* the result carries the StructSerializer after the call
serialize_field_Bad(ss, key, value) ==
    LET t == parse(key)
    IN  IF ~t.ok THEN [ok |-> FALSE, err |-> "ErrorFieldTag", st |-> ss]
        ELSE LET r == SerializeUnder(ss.ser, t.val, value)
                 st == [ser |-> r.ser, tags |-> ss.tags \cup {t.val}]
             IN  IF t.val \in ss.tags
                 THEN [ok |-> FALSE, err |-> "DuplicateFieldTag", st |-> st]
                 ELSE IF ~r.ok
                 THEN [ok |-> FALSE, err |-> r.err, st |-> st]
                 ELSE [ok |-> TRUE, st |-> st]
serialize_field(ss, key, value) ==
    LET t == parse(key)
    IN  IF ~t.ok THEN [ok |-> FALSE, err |-> "ErrorFieldTag", st |-> ss]
        ELSE IF t.val \notin ss.tags
        THEN LET r == SerializeUnder(ss.ser, t.val, value)
                 st == [ser |-> r.ser, tags |-> ss.tags \cup {t.val}]
             IN  IF ~r.ok THEN [ok |-> FALSE, err |-> r.err, st |-> st]
                 ELSE [ok |-> TRUE, st |-> st]
        ELSE [ok |-> FALSE, err |-> "DuplicateFieldTag", st |-> ss]

\* StructSerializer::end
StructSerializer_end_Bad(ss) ==
    SerOk([ss.ser EXCEPT !.builder = push_head(@, ss.ser.tag, StructEnd)])
StructSerializer_end(ss) ==
    SerOk([ss.ser EXCEPT !.builder = Jcebuilder_struct_end(@)])

\* `for e in v { seq.serialize_element(e)?; }`
SerializeElements(items, s) ==
    IF Len(items) = 0 THEN SerOk(s)
    ELSE LET r == serialize_element(s, Head(items))
         IN  IF ~r.ok THEN r ELSE SerializeElements(Tail(items), r.ser)

\* `for (k, v) in v { seq.serialize_entry(k, v)?; }`
SerializeEntries(entries, s) ==
    IF Len(entries) = 0 THEN SerOk(s)
    ELSE LET k == serialize_key(s, Head(entries)[1])
         IN  IF ~k.ok THEN k
             ELSE LET v == serialize_value(k.ser, Head(entries)[2])
                  IN  IF ~v.ok THEN v
                      ELSE SerializeEntries(Tail(entries), v.ser)

\* `for (k, v) in v { seq.serialize_field(STR_TABLE[*k as usize], v)?; }`
\* and `seq.end()`
SerializeFields(entries, ss) ==
    IF Len(entries) = 0 THEN StructSerializer_end(ss)
    ELSE LET r == serialize_field(ss, STR_TABLE[Head(entries)[1]],
                                  Head(entries)[2])
         IN  IF ~r.ok THEN SerErr(r.err, r.st.ser)
             ELSE SerializeFields(Tail(entries), r.st)

\* impl Serialize for Value
Value_serialize(v, s) ==
    CASE v[1] = "Zero" -> serialize_none(s)
      [] v[1] = "Int" -> serialize_i64(s, v[2])
      [] v[1] = "Float" -> serialize_f32(s, v[2])
      [] v[1] = "Double" -> serialize_f64(s, v[2])
      [] v[1] = "String" -> serialize_str(s, v[2])
      [] v[1] = "Bytes" -> serialize_bytes(s, v[2])
      [] v[1] = "List" ->
           LET seq == serialize_seq(s, Len(v[2]))
           IN  IF ~seq.ok THEN seq ELSE SerializeElements(v[2], seq.ser)
      [] v[1] = "Map" ->
           LET seq == serialize_map(s, Len(v[2]))
           IN  IF ~seq.ok THEN seq ELSE SerializeEntries(v[2], seq.ser)
      [] v[1] = "Object" ->
           LET seq == serialize_struct(s)
           IN  SerializeFields(v[2], StructSerializer_new(seq.ser))

\* to_bytes: Ok(the builder's bytes) or the error of value.serialize
to_bytes(value) ==
    LET r == Value_serialize(value, Serializer_new)
    IN  IF r.ok THEN [ok |-> TRUE, val |-> r.ser.builder]
        ELSE [ok |-> FALSE, err |-> r.err]

-----------------------------------------------------------------------------
(* Deserializer, src/de/deserializer.rs, driven by ValueVisitor,           *)
(* src/value.rs.  A method maps the parser's remaining bytes to a Result   *)
(* that carries the bytes remaining after the call.                        *)

\* a panic unwinds through every caller like an error
Panic(msg, rest) ==
    [ok |-> FALSE, err |-> "panic", msg |-> msg, rest |-> rest]

\* the result of a TagsAccess method: it carries the seen tags as well
WithTags(r, tags) ==
    IF r.ok THEN [ok |-> TRUE, val |-> r.val, rest |-> r.rest, tags |-> tags]
    ELSE [ok |-> FALSE, err |-> r.err, rest |-> r.rest, tags |-> tags]

\* TagsAccess::get_tag on the seen tags and the parser's bytes
get_tag_Bad(tags, b) ==
    Match(pick_head(b), LAMBDA h :
        IF ~h.ok THEN WithTags(h, tags)
        ELSE IF h.val[2] = StructEnd
        THEN WithTags(JceParser_struct_end(b), tags)
        ELSE WithTags(Ok(Some(h.val[1]), b), tags \cup {h.val[1]}))
get_tag_Bad2(tags, b) ==
    Match(pick_head(b), LAMBDA h :
        IF ~h.ok THEN WithTags(h, tags)
        ELSE IF h.val[1] \in tags
        THEN WithTags(Err("DuplicateFieldTag", b), tags)
        ELSE IF h.val[2] = StructEnd
        THEN WithTags(JceParser_struct_end(b), tags)
        ELSE WithTags(Ok(Some(h.val[1]), b), tags \cup {h.val[1]}))
get_tag(tags, b) ==
    Match(pick_head(b), LAMBDA h :
        IF ~h.ok THEN WithTags(h, tags)
        ELSE IF h.val[2] = StructEnd
        THEN WithTags(JceParser_struct_end(b), tags)
        ELSE IF h.val[1] \notin tags
        THEN WithTags(Ok(Some(h.val[1]), b), tags \cup {h.val[1]})
        ELSE WithTags(Err("DuplicateFieldTag", b), tags))

\* TagsAccess::new_with_fields: the set of the parsed field names
RECURSIVE new_with_fields(_, _)
new_with_fields(fields, set) ==
    IF Len(fields) = 0 THEN [ok |-> TRUE, val |-> set]
    ELSE Match(parse(Head(fields)), LAMBDA t :
            IF ~t.ok THEN [ok |-> FALSE, err |-> "ErrorFieldTag"]
            ELSE IF t.val \in set
            THEN [ok |-> FALSE, err |-> "DuplicateFieldTagName"]
            ELSE new_with_fields(Tail(fields), set \cup {t.val}))

\* MapAccess::next_key_seed for TagsAccess.  With fields it answers the
\* name of the next expected field (StupidStringDeserializer), skipping the
\* others; without fields it answers the tag (StupidTagDeserializer).
RECURSIVE next_key_seed(_, _, _)
next_key_seed_Bad(tags, fields, b) ==
    AndThen(get_tag(tags, b), LAMBDA t :
        IF t.val = None THEN t
        ELSE IF fields = None THEN t
        ELSE [t EXCEPT !.val = Some(to_string(t.val[1]))])
next_key_seed(tags, fields, b) ==
    AndThen(get_tag(tags, b), LAMBDA t :
        IF t.val = None THEN t
        ELSE IF fields = None THEN t
        ELSE IF t.val[1] \in fields[1]
        THEN [t EXCEPT !.val = Some(to_string(t.val[1]))]
        ELSE AndThen(WithTags(ignore(t.rest), t.tags), LAMBDA r :
                next_key_seed(r.tags, fields, r.rest)))

RECURSIVE deserialize_any(_)
RECURSIVE visit_seq(_, _, _, _)
RECURSIVE visit_map_Map(_, _, _, _)
RECURSIVE visit_map_Object(_, _, _)

\* the visit_iN, visit_f32, ... of ValueVisitor applied to a parser result
Visit(variant, r) == IF r.ok THEN Ok(<<variant, r.val>>, r.rest) ELSE r
VisitInt_Bad(r) == IF r.ok THEN Ok(Value_Int(AsI64_Bad(r.val)), r.rest) ELSE r
VisitInt(r) == IF r.ok THEN Ok(Value_Int(AsI64(r.val)), r.rest) ELSE r

\* ValueVisitor::visit_seq over Sequence [cur, size]
visit_seq(b, cur, size, vec) ==
    IF cur = size THEN Ok(Value_List(vec), b)
    ELSE AndThen(deserialize_any(b), LAMBDA e :
            visit_seq(e.rest, cur + 1, size, Append(vec, e.val)))

\* ValueVisitor::visit_map, size_hint() is Some: over Sequence [cur, size]
visit_map_Map_Bad(b, cur, size, map) ==
    IF cur = size
    THEN Ok(IF size = 0 THEN Value_Object(map) ELSE Value_Map(map), b)
    ELSE AndThen(deserialize_any(b), LAMBDA k :
         AndThen(deserialize_any(k.rest), LAMBDA v :
            visit_map_Map(v.rest, cur + 1, size,
                          BTreeMap_insert(map, k.val, v.val, FALSE))))
visit_map_Map(b, cur, size, map) ==
    IF cur = size THEN Ok(Value_Map(map), b)
    ELSE AndThen(deserialize_any(b), LAMBDA k :
         AndThen(deserialize_any(k.rest), LAMBDA v :
            visit_map_Map(v.rest, cur + 1, size,
                          BTreeMap_insert(map, k.val, v.val, FALSE))))

\* ValueVisitor::visit_map, size_hint() is None: over TagsAccess::new
visit_map_Object(b, tags, map) ==
    Match(next_key_seed(tags, None, b), LAMBDA k :
        IF ~k.ok THEN Err(k.err, k.rest)
        ELSE IF k.val = None THEN Ok(Value_Object(map), k.rest)
        ELSE AndThen(deserialize_any(k.rest), LAMBDA v :
                visit_map_Object(v.rest, k.tags,
                                 BTreeMap_insert(map, k.val[1], v.val, TRUE))))

\* the arm of deserialize_any for the type tp of the next header
DeserializeArm(tp, b) ==
    CASE tp = I8 -> VisitInt(JceParser_i8(b))
      [] tp = I16 -> VisitInt(JceParser_i16(b))
      [] tp = I32 -> VisitInt(JceParser_i32(b))
      [] tp = I64 -> Visit("Int", JceParser_i64(b))
      [] tp = F32 -> Visit("Float", JceParser_f32(b))
      [] tp = F64 -> Visit("Double", JceParser_f64(b))
      [] tp = String1 -> Visit("String", str_small(b))
      [] tp = String4 -> Visit("String", str_big(b))
      [] tp = Map ->
           AndThen(JceParser_map(b), LAMBDA len :
               visit_map_Map(len.rest, 0, len.val, <<>>))
      [] tp = List ->
           AndThen(JceParser_list(b), LAMBDA len :
               visit_seq(len.rest, 0, len.val, <<>>))
      [] tp = StructBegin ->
           AndThen(JceParser_struct_begin(b), LAMBDA r :
               visit_map_Object(r.rest, {}, <<>>))
      [] tp = StructEnd -> Panic("not yet implemented", b)
      [] tp = Zero ->
           AndThen(JceParser_zero(b), LAMBDA r : Ok(Value_Zero, r.rest))
      [] tp = Bytes -> Visit("Bytes", JceParser_bytes(b))

\* Deserializer::deserialize_any with ValueVisitor: Value::deserialize
deserialize_any(b) ==
    AndThen(pick_head(b), LAMBDA h : DeserializeArm(h.val[2], b))

\* from_bytes::<Value>
from_bytes_Bad(b) == deserialize_any(b)
from_bytes(b) ==
    AndThen(deserialize_any(b), LAMBDA t :
        IF JceParser_done(t.rest) THEN t ELSE Err("TrailingBytes", t.rest))

-----------------------------------------------------------------------------
(* The Values handed to to_bytes: every leaf variant at its borders, and   *)
(* lists, maps and objects of up to MaxLen entries, nested two deep.       *)

RECURSIVE MapOf(_, _)
\* the BTreeMap built by inserting the pairs in turn
MapOf(pairs, object) ==
    IF Len(pairs) = 0 THEN <<>>
    ELSE BTreeMap_insert(MapOf(SubSeq(pairs, 1, Len(pairs) - 1), object),
                         pairs[Len(pairs)][1], pairs[Len(pairs)][2], object)

FloatSamples == {<<0, 0>>, <<16256, 0>>, <<32704, 0>>, <<32768, 0>>,
                 <<65535, 65535>>}
DoubleSamples == {<<0, 0, 0, 0>>, <<16368, 0, 0, 0>>, <<32760, 0, 0, 0>>,
                  <<65535, 65535, 65535, 65535>>}
BytesSamples == {<<>>, <<0>>, <<11, 12, 255>>, [i \in 1..300 |-> 255]}

ValueLeaves ==
    {Value_Zero}
    \cup {Value_Int(v) : v \in I64Samples}
    \cup {Value_Float(v) : v \in FloatSamples}
    \cup {Value_Double(v) : v \in DoubleSamples}
    \cup {Value_String(v) : v \in StrSamples}
    \cup {Value_Bytes(v) : v \in BytesSamples}

ValueInner ==
    {Value_Zero, Value_Int(AsI64(0)), Value_Int(AsI64(-129)),
     Value_String(<<97>>), Value_Bytes(<<11, 12, 255>>)}

ValueKeys == {Value_Zero, Value_Int(AsI64(0)), Value_String(<<97>>)}

ObjectTags == {0, 15, 255}

\* lists, maps and objects over the given members and keys
Nested(members, keys) ==
    {Value_List(s) : s \in SeqsUpTo(members, MaxLen)}
    \cup {Value_Map(MapOf(s, FALSE)) : s \in SeqsUpTo(keys \X keys, MaxLen)}
    \cup {Value_Object(MapOf(s, TRUE)) :
            s \in SeqsUpTo(ObjectTags \X keys, MaxLen)}

ValueOne == Nested(ValueInner, ValueKeys)

ValueOneInner ==
    {Value_List(<<Value_Int(AsI64(0))>>),
     Value_Map(<<<<Value_String(<<97>>), Value_Int(AsI64(-129))>>>>),
     Value_Object(<<<<15, Value_Zero>>, <<255, Value_String(<<97>>)>>>>)}

ValueTwo == Nested(ValueOneInner \cup {Value_Int(AsI64(1))}, ValueOneInner)

Values == ValueLeaves \cup ValueOne \cup ValueTwo

ExtraBytes == {<<0>>, <<StructEnd>>, <<Zero, Zero>>}

-----------------------------------------------------------------------------
(* Spec: a Value is encoded by to_bytes and the bytes, alone or followed   *)
(* by extra bytes, are decoded by from_bytes::<Value>.                     *)

Init ==
    /\ \E v \in Values : arg = [v |-> v, extra |-> <<>>]
    /\ bytes = <<>>
    /\ input = <<>>
    /\ ret = None
    /\ pc = "start"
    /\ Idle

\* to_bytes(&arg.v)
ToBytes ==
    /\ pc = "start"
    /\ LET r == Value_serialize(arg.v, Serializer_new)
       IN  /\ bytes' = r.ser.builder
           /\ tag' = r.ser.tag
           /\ ret' = to_bytes(arg.v)
    /\ pc' = "to_bytes"
    /\ UNCHANGED <<input, arg, ser_tags, de_tags, de_fields, stack>>

\* from_bytes::<Value>(&bytes)
FromBytes ==
    /\ pc = "to_bytes"
    /\ ret.ok
    /\ input' = bytes
    /\ ret' = from_bytes(bytes)
    /\ pc' = "from_bytes"
    /\ UNCHANGED <<bytes, arg>>
    /\ IdleUnchanged

\* from_bytes::<Value>(&[bytes, extra].concat())
FromBytesExtra ==
    /\ pc = "to_bytes"
    /\ ret.ok
    /\ \E extra \in ExtraBytes :
          /\ input' = bytes \o extra
          /\ ret' = from_bytes(bytes \o extra)
          /\ arg' = [arg EXCEPT !.extra = extra]
    /\ pc' = "from_bytes"
    /\ UNCHANGED bytes
    /\ IdleUnchanged

Next ==
    \/ ToBytes
    \/ FromBytes
    \/ FromBytesExtra

Spec == Init /\ [][Next]_vars

\* v with every Int(0), at any depth, replaced by Zero; the entries of a
\* map are inserted again in their order, so that entries whose keys have
\* become equal collapse into the last of them
RECURSIVE ZeroElided(_)
RECURSIVE ZeroElidedEntries(_, _)
ZeroElidedEntries(entries, object) ==
    [i \in 1..Len(entries) |->
        <<IF object THEN entries[i][1] ELSE ZeroElided(entries[i][1]),
          ZeroElided(entries[i][2])>>]
ZeroElided(v) ==
    CASE v = Value_Int(<<0, 0, 0, 0>>) -> Value_Zero
      [] v[1] = "List" -> Value_List([i \in 1..Len(v[2]) |-> ZeroElided(v[2][i])])
      [] v[1] = "Map" -> Value_Map(MapOf(ZeroElidedEntries(v[2], FALSE), FALSE))
      [] v[1] = "Object" ->
           Value_Object(MapOf(ZeroElidedEntries(v[2], TRUE), TRUE))
      [] OTHER -> v

\* C1, as stated: decoding the encoding of v gives a Value equal to v.
C1_RoundTrip ==
    pc = "from_bytes" /\ arg.extra = <<>> =>
        ret.ok /\ Value_eq(ret.val, arg.v)

\* C1: decoding the encoding of v gives v with every Int(0) replaced by
\* Zero, which is v itself when v holds no Int(0).
C1_RoundTripZeroElided ==
    pc = "from_bytes" /\ arg.extra = <<>> =>
        /\ ret.ok
        /\ Value_eq(ret.val, ZeroElided(arg.v))
        /\ ZeroElided(arg.v) = arg.v => Value_eq(ret.val, arg.v)

C1_Witness ==
    LET m == Value_Map(<<<<Value_String(<<97>>),
                          Value_Int(<<-1, 65535, 65535, 65407>>)>>>>)
    IN  /\ pc = "from_bytes"
        /\ arg.extra = <<>>
        /\ arg.v = Value_Object(<<<<0, Value_List(<<Value_Int(<<0, 0, 0, 0>>)>>)>>,
                                  <<15, m>>>>)
        /\ bytes = <<StructBegin, List, I8, 1, Zero,
                     240 + Map, 15, I8, 1, String1, 1, 97, 16 + I16, 255, 127,
                     StructEnd>>
        /\ ret.ok
        /\ ret.val = Value_Object(<<<<0, Value_List(<<Value_Zero>>)>>, <<15, m>>>>)

\* C5: the encoding of a Value followed by extra bytes fails to decode with
\* TrailingBytes, and the encoding alone decodes.
C5_TrailingBytes ==
    pc = "from_bytes" =>
        IF arg.extra = <<>> THEN ret.ok
        ELSE ~ret.ok /\ ret.err = "TrailingBytes" /\ ret.rest = arg.extra

C5_Witness ==
    /\ pc = "from_bytes"
    /\ arg.v = Value_String(<<97>>)
    /\ input = <<String1, 1, 97, StructEnd>>
    /\ ~ret.ok
    /\ ret.err = "TrailingBytes"

-----------------------------------------------------------------------------
(* SpecStruct: a record is written field by field through                  *)
(* Serializer::serialize_struct, StructSerializer::serialize_field and     *)
(* StructSerializer::end, as a derived Serialize impl does.                *)

MaxFields == 3

\* field names: "0", "1", "+1", "15", "255", "256" and "x"
KeySamples ==
    {<<48>>, <<49>>, <<43, 49>>, <<49, 53>>, <<50, 53, 53>>, <<50, 53, 54>>,
     <<120>>}

FieldValues ==
    {Value_Int(AsI64(0)), Value_Int(AsI64(-129)),
     Value_Object(<<<<1, Value_String(<<97>>)>>>>)}

\* the values 0x12 and 0x3456 are offered to the fields named "0" and "1"
FieldValuesOf(key) ==
    FieldValues
    \cup (IF key = <<48>> THEN {Value_Int(AsI64(18))} ELSE {})
    \cup (IF key = <<49>> THEN {Value_Int(AsI64(13398))} ELSE {})

\* to_bytes_with_tag: Serializer::new, then the tag of the record
StructInit ==
    /\ bytes = <<>>
    /\ tag \in {0, 200}
    /\ ser_tags = {}
    /\ input = <<>>
    /\ de_tags = {}
    /\ de_fields = None
    /\ stack = <<>>
    /\ ret = None
    /\ pc = "new"
    /\ arg = [n |-> 0, key |-> <<>>, before |-> <<>>, earlier |-> <<>>,
              done |-> <<>>, vals |-> <<>>, top |-> tag]

\* Serializer::serialize_struct
SerializeStruct ==
    /\ pc = "new"
    /\ LET r == serialize_struct([tag |-> tag, builder |-> bytes])
       IN  /\ bytes' = r.ser.builder
           /\ tag' = r.ser.tag
           /\ ser_tags' = StructSerializer_new(r.ser).tags
           /\ ret' = [ok |-> r.ok]
    /\ pc' = "serialize_struct"
    /\ UNCHANGED <<input, de_tags, de_fields, stack, arg>>

\* StructSerializer::serialize_field(key, value); a caller stops at the
\* first error
SerializeField ==
    /\ pc \in {"serialize_struct", "serialize_field"}
    /\ ret.ok
    /\ arg.n < MaxFields
    /\ \E key \in KeySamples : \E value \in FieldValuesOf(key) :
          LET r == serialize_field([ser |-> [tag |-> tag, builder |-> bytes],
                                    tags |-> ser_tags], key, value)
          IN  /\ bytes' = r.st.ser.builder
              /\ tag' = r.st.ser.tag
              /\ ser_tags' = r.st.tags
              /\ ret' = IF r.ok THEN [ok |-> TRUE]
                        ELSE [ok |-> FALSE, err |-> r.err]
              /\ arg' = [arg EXCEPT !.n = @ + 1, !.key = key,
                                    !.before = bytes, !.earlier = arg.done,
                                    !.done = IF r.ok THEN Append(@, key) ELSE @,
                                    !.vals = IF r.ok THEN Append(@, value)
                                             ELSE @]
    /\ pc' = "serialize_field"
    /\ UNCHANGED <<input, de_tags, de_fields, stack>>

\* StructSerializer::end
End ==
    /\ pc \in {"serialize_struct", "serialize_field"}
    /\ ret.ok
    /\ LET r == StructSerializer_end([ser |-> [tag |-> tag, builder |-> bytes],
                                      tags |-> ser_tags])
       IN  /\ bytes' = r.ser.builder
           /\ tag' = r.ser.tag
           /\ ret' = [ok |-> r.ok]
    /\ pc' = "end"
    /\ UNCHANGED <<ser_tags, input, de_tags, de_fields, stack, arg>>

StructNext ==
    \/ SerializeStruct
    \/ SerializeField
    \/ End

SpecStruct == StructInit /\ [][StructNext]_vars

\* the tag a field name stands for
KeyTag(key) ==
    CASE key = <<48>> -> 0
      [] key = <<49>> -> 1
      [] key = <<43, 49>> -> 1
      [] key = <<49, 53>> -> 15
      [] key = <<50, 53, 53>> -> 255
      [] OTHER -> -1

\* the field just passed to serialize_field names a tag that an earlier,
\* successful serialize_field of this record has written
TagAlreadyWritten ==
    /\ KeyTag(arg.key) >= 0
    /\ \E i \in 1..Len(arg.earlier) : KeyTag(arg.earlier[i]) = KeyTag(arg.key)

\* C7: a serialize_field whose tag was already written in the record fails
\* with DuplicateFieldTag and leaves the buffer as it was, the StructBegin
\* header and the earlier fields in it.
C7_DuplicateAppendsNothing ==
    pc = "serialize_field" /\ TagAlreadyWritten =>
        /\ ~ret.ok
        /\ ret.err = "DuplicateFieldTag"
        /\ bytes = arg.before
        /\ SubSeq(bytes, 1, Len(Header(arg.top, StructBegin)))
             = Header(arg.top, StructBegin)
        /\ Len(bytes) > Len(Header(arg.top, StructBegin))

C7_Witness ==
    /\ pc = "serialize_field"
    /\ arg.done = <<<<49>>, <<50, 53, 53>>>>
    /\ arg.key = <<43, 49>>
    /\ ~ret.ok
    /\ ret.err = "DuplicateFieldTag"
    /\ bytes = <<StructBegin, 16 + I16, 255, 127, 240 + Zero, 255>>

\* the encoding of a field value under the tag t
FieldBytes(t, value) ==
    IF value[1] = "Int"
    THEN IF value[2] = <<0, 0, 0, 0>> THEN Header(t, Zero)
         ELSE Header(t, WidthType(MinWidth(value[2])))
              \o LastBytes(TwosComplement(value[2]), MinWidth(value[2]))
    ELSE Header(t, StructBegin) \o <<16 + String1, 1, 97>> \o <<StructEnd>>

\* C14: a record written under tag t is the StructBegin header under t,
\* each field's encoding under the tag its name parses to, in the order of
\* the serialize_field calls, and one StructEnd header with tag 0 (0x0B);
\* i8 0x12 under tag 0 and i16 0x3456 under tag 1 give 0A 00 12 11 34 56 0B.
C14_RecordLayout ==
    pc = "end" =>
        /\ bytes = Header(arg.top, StructBegin)
                   \o Concat([i \in 1..Len(arg.done) |->
                                FieldBytes(KeyTag(arg.done[i]), arg.vals[i])])
                   \o <<StructEnd>>
        /\ /\ arg.top = 0
           /\ arg.done = <<<<48>>, <<49>>>>
           /\ arg.vals = <<Value_Int(AsI64(18)), Value_Int(AsI64(13398))>>
           => bytes = <<10, 0, 18, 17, 52, 86, 11>>

C14_Witness ==
    /\ pc = "end"
    /\ arg.top = 200
    /\ arg.done = <<<<49>>, <<48>>>>
    /\ bytes = <<240 + StructBegin, 200, 16 + I16, 52, 86, I8, 18, StructEnd>>

-----------------------------------------------------------------------------
(* SpecRecord: the bytes of a record are decoded through a TagsAccess, as  *)
(* ValueVisitor::visit_map (no field names) and a derived Deserialize impl *)
(* (field names) drive it: next_key_seed, then next_value_seed for the key *)
(* handed back, until next_key_seed answers None.                          *)

\* the wire fields of a record: the tag, the encoding, the Value it holds
FieldSamples ==
    UNION {{[tag |-> t, enc |-> Header(t, I8) \o <<18>>,
             val |-> Value_Int(<<0, 0, 0, 18>>)],
            [tag |-> t,
             enc |-> Header(t, StructBegin) \o <<Zero, 16 + I8, 5, StructEnd>>,
             val |-> Value_Object(<<<<0, Value_Zero>>,
                                    <<1, Value_Int(<<0, 0, 0, 5>>)>>>>)],
            [tag |-> t,
             enc |-> Header(t, List) \o <<I8, 2, Zero, I16, 1, 0>>,
             val |-> Value_List(<<Value_Zero, Value_Int(<<0, 0, 0, 256>>)>>)]} :
           t \in {0, 1, 15}}

\* the `fields` of deserialize_struct: ["0"], ["1", "15"], ["1", "+1"], ["x"]
FieldNames ==
    {<<<<48>>>>, <<<<49>>, <<49, 53>>>>, <<<<49>>, <<43, 49>>>>, <<<<120>>>>}

\* Deserializer::from_bytes over a record of the sample fields, closed by
\* a StructEnd header under the tag 0 or the tag 15
RecordInit ==
    /\ \E fs \in SeqsUpTo(FieldSamples, MaxFields), t \in {0, 15} :
          /\ arg = [fields |-> fs, names |-> None, before |-> <<>>, end |-> t]
          /\ input = <<StructBegin>>
                       \o Concat([i \in 1..Len(fs) |-> fs[i].enc])
                       \o Header(t, StructEnd)
    /\ bytes = <<>>
    /\ ret = None
    /\ pc = "from_bytes"
    /\ Idle

\* deserialize_any, StructBegin arm, up to the call of visit_map
DeserializeAny ==
    /\ pc = "from_bytes"
    /\ pick_head(input).ok
    /\ pick_head(input).val[2] = StructBegin
    /\ LET r == JceParser_struct_begin(input)
       IN  /\ input' = r.rest
           /\ ret' = r
    /\ de_tags' = {}
    /\ de_fields' = None
    /\ pc' = "struct"
    /\ arg' = [arg EXCEPT !.before = input]
    /\ UNCHANGED <<bytes, tag, ser_tags, stack>>

\* deserialize_struct(_, fields, _), up to the call of visit_map
DeserializeStruct ==
    /\ pc = "from_bytes"
    /\ \E fields \in FieldNames :
          LET r == JceParser_struct_begin(input)
              set == new_with_fields(fields, {})
          IN  /\ input' = r.rest
              /\ ret' = IF ~r.ok THEN r
                        ELSE IF ~set.ok THEN Err(set.err, r.rest)
                        ELSE Ok(None, r.rest)
              /\ de_fields' = IF r.ok /\ set.ok THEN Some(set.val) ELSE None
              /\ arg' = [arg EXCEPT !.names = Some(fields), !.before = input]
    /\ de_tags' = {}
    /\ pc' = "struct"
    /\ UNCHANGED <<bytes, tag, ser_tags, stack>>

\* the parser and the TagsAccess after a method that returned r
Stepped(op, r) ==
    /\ input' = r.rest
    /\ ret' = IF r.ok THEN Ok(r.val, r.rest) ELSE Err(r.err, r.rest)
    /\ pc' = op
    /\ arg' = [arg EXCEPT !.before = input]
    /\ UNCHANGED <<bytes, tag, ser_tags, de_fields, stack>>

\* MapAccess::next_key_seed; a visitor stops at the first error and at None
NextKey ==
    /\ pc \in {"struct", "next_value"}
    /\ ret.ok
    /\ Match(next_key_seed(de_tags, de_fields, input), LAMBDA r :
            de_tags' = r.tags /\ Stepped("next_key", r))

\* MapAccess::next_value_seed with the seed of a Value
NextValue ==
    /\ pc = "next_key"
    /\ ret.ok
    /\ ret.val # None
    /\ UNCHANGED de_tags
    /\ Stepped("next_value", deserialize_any(input))

RecordNext ==
    \/ DeserializeAny
    \/ DeserializeStruct
    \/ NextKey
    \/ NextValue

SpecRecord == RecordInit /\ [][RecordNext]_vars

\* the record's bytes from its field k + 1 on
Remaining(k) ==
    Concat([i \in 1..(Len(arg.fields) - k) |-> arg.fields[k + i].enc])
    \o Header(arg.end, StructEnd)

\* the number of fields in front of the cursor when the last call began
Cursor == CHOOSE k \in 0..Len(arg.fields) : Remaining(k) = arg.before

\* field j repeats the tag of a field before it
Repeats(j) == \E i \in 1..(j - 1) : arg.fields[i].tag = arg.fields[j].tag

\* the caller asked for field j: every field when no names were given
Wanted(j) ==
    \/ arg.names = None
    \/ \E i \in 1..Len(arg.names[1]) :
          KeyTag(arg.names[1][i]) = arg.fields[j].tag

\* the fields after the cursor at which a scan must stop
Stops == {j \in (Cursor + 1)..Len(arg.fields) : Repeats(j) \/ Wanted(j)}
FirstStop == CHOOSE j \in Stops : \A i \in Stops : j <= i

TagName(t) == CASE t = 0 -> <<48>> [] t = 1 -> <<49>> [] t = 15 -> <<49, 53>>

\* C6: a record with two fields of the same tag does not decode: the scan
\* that reaches the second of them fails with DuplicateFieldTag, with and
\* without field names, also when that tag is not among the names; only a
\* record of pairwise distinct tags is decoded to its end.
C6_DuplicateFieldTag ==
    pc = "next_key" =>
        /\ Stops # {} /\ Repeats(FirstStop) =>
              ~ret.ok /\ ret.err = "DuplicateFieldTag"
        /\ ret.ok /\ ret.val = None =>
              \A j \in 1..Len(arg.fields) : ~Repeats(j)

C6_Witness ==
    /\ pc = "next_key"
    /\ arg.names = Some(<<<<48>>>>)
    /\ Len(arg.fields) = 3
    /\ arg.fields[1].tag = 0
    /\ arg.fields[2].tag = 15
    /\ arg.fields[3].tag = 15
    /\ Cursor = 1
    /\ ~ret.ok
    /\ ret.err = "DuplicateFieldTag"

\* C8: with field names and pairwise distinct wire tags, next_key_seed
\* skips every field that is not named, hands back the name of the next
\* named field with the cursor at its header, and answers None only after
\* the StructEnd header; the value of a field handed back decodes to the
\* value stored, and the cursor moves to the next field.
C8_SkipUnexpected ==
    /\ arg.names # None
    /\ \A j \in 1..Len(arg.fields) : ~Repeats(j)
    =>
    /\ pc = "next_key" =>
          /\ ret.ok
          /\ IF Stops = {} THEN ret.val = None /\ input = <<>>
             ELSE /\ ret.val = Some(TagName(arg.fields[FirstStop].tag))
                  /\ input = Remaining(FirstStop - 1)
    /\ pc = "next_value" =>
          /\ ret.ok
          /\ ret.val = arg.fields[Cursor + 1].val
          /\ input = Remaining(Cursor + 1)

C8_Witness ==
    /\ pc = "next_value"
    /\ arg.names = Some(<<<<49>>, <<49, 53>>>>)
    /\ Len(arg.fields) = 3
    /\ arg.fields[1].tag = 0
    /\ arg.fields[1].val[1] = "Object"
    /\ arg.fields[2].tag = 15
    /\ arg.fields[3].tag = 1
    /\ Cursor = 1
    /\ ret.ok
    /\ ret.val = arg.fields[2].val
    /\ input = arg.fields[3].enc \o <<StructEnd>>


-----------------------------------------------------------------------------
(* SpecInt: to_bytes_with_tag(tag, v) for an integer v of a type wider     *)
(* than i64: u64, i128 or u128.                                            *)

U64Samples ==
    {<<0, 0, 0, 0>>, <<0, 0, 0, 18>>, <<0, 0, 1, 0>>, <<0, 1, 0, 0>>,
     <<32767, 65535, 65535, 65535>>, <<32768, 0, 0, 0>>, <<32768, 0, 0, 1>>,
     <<65535, 65535, 65535, 65535>>}

\* 0, 0x12, -1, i64::MAX, i64::MAX + 1, i64::MIN, i64::MIN - 1, -2^64,
\* -2^64 + 0x12, 2^64, i128::MIN, i128::MAX
I128Samples ==
    {<<0, 0, 0, 0, 0, 0, 0, 0>>, <<0, 0, 0, 0, 0, 0, 0, 18>>,
     <<-1, 65535, 65535, 65535, 65535, 65535, 65535, 65535>>,
     <<0, 0, 0, 0, 32767, 65535, 65535, 65535>>,
     <<0, 0, 0, 0, 32768, 0, 0, 0>>,
     <<-1, 65535, 65535, 65535, 32768, 0, 0, 0>>,
     <<-1, 65535, 65535, 65535, 32767, 65535, 65535, 65535>>,
     <<-1, 65535, 65535, 65535, 0, 0, 0, 0>>,
     <<-1, 65535, 65535, 65535, 0, 0, 0, 18>>,
     <<0, 0, 0, 1, 0, 0, 0, 0>>,
     <<-32768, 0, 0, 0, 0, 0, 0, 0>>,
     <<32767, 65535, 65535, 65535, 65535, 65535, 65535, 65535>>}

U128Samples ==
    {<<0, 0, 0, 0, 0, 0, 0, 0>>, <<0, 0, 0, 0, 0, 0, 0, 18>>,
     <<0, 0, 0, 0, 32767, 65535, 65535, 65535>>,
     <<0, 0, 0, 0, 32768, 0, 0, 0>>,
     <<0, 0, 0, 0, 65535, 65535, 65535, 65535>>,
     <<0, 0, 0, 1, 0, 0, 0, 0>>, <<0, 0, 0, 1, 0, 0, 0, 18>>,
     <<65535, 65535, 65535, 65535, 65535, 65535, 65535, 65535>>}

\* Serializer::new, `serializer.tag = tag`
IntInit ==
    /\ bytes = <<>>
    /\ tag \in TagSamples
    /\ ser_tags = {}
    /\ input = <<>>
    /\ de_tags = {}
    /\ de_fields = None
    /\ stack = <<>>
    /\ ret = None
    /\ pc = "new"
    /\ arg = [v |-> <<>>]

\* `value.serialize(&mut serializer)` returned r
Serialized(op, v, r) ==
    /\ pc = "new"
    /\ bytes' = r.ser.builder
    /\ tag' = r.ser.tag
    /\ ret' = IF r.ok THEN [ok |-> TRUE] ELSE [ok |-> FALSE, err |-> r.err]
    /\ pc' = op
    /\ arg' = [v |-> v]
    /\ UNCHANGED <<ser_tags, input, de_tags, de_fields, stack>>

Serialize_u64 ==
    \E v \in U64Samples :
        Serialized("u64", v,
                   serialize_u64([tag |-> tag, builder |-> bytes], v))

Serialize_i128 ==
    \E v \in I128Samples :
        Serialized("i128", v,
                   serialize_i128([tag |-> tag, builder |-> bytes], v))

Serialize_u128 ==
    \E v \in U128Samples :
        Serialized("u128", v,
                   serialize_u128([tag |-> tag, builder |-> bytes], v))

IntNext ==
    \/ Serialize_u64
    \/ Serialize_i128
    \/ Serialize_u128

SpecInt == IntInit /\ [][IntNext]_vars

\* the integer passed in lies in [-2^63, 2^63 - 1]: its bits above the low
\* 64 repeat the sign bit of the low 64
InI64Range ==
    CASE pc = "u64" -> arg.v[1] < 32768
      [] pc = "u128" ->
           (\A i \in 1..4 : arg.v[i] = 0) /\ arg.v[5] < 32768
      [] pc = "i128" ->
           \/ (\A i \in 1..4 : arg.v[i] = 0) /\ arg.v[5] < 32768
           \/ arg.v[1] = -1 /\ (\A i \in 2..4 : arg.v[i] = 65535)
              /\ arg.v[5] >= 32768
      [] OTHER -> TRUE

\* C16: an integer outside [-2^63, 2^63 - 1], passed as u64, i128 or u128,
\* fails with IntTooBig and nothing is written.
C16_IntTooBig ==
    pc \in {"u64", "i128", "u128"} /\ ~InI64Range =>
        /\ ~ret.ok
        /\ ret.err = "IntTooBig"
        /\ bytes = <<>>


-----------------------------------------------------------------------------
(* SpecOrd: Value::cmp and Value::eq are applied to the pairs of three     *)
(* Values.                                                                 *)

\* every variant, with the floats NaN, -0.0, +0.0 and +inf, and lists, maps
\* and objects that differ in length, in a key and in a value
OrdValues ==
    {Value_Zero,
     Value_Int(AsI64(-129)), Value_Int(AsI64(0)), Value_Int(<<0, 1, 0, 0>>),
     Value_Float(<<32704, 0>>), Value_Float(<<32768, 0>>),
     Value_Float(<<0, 0>>),
     Value_Double(<<32752, 0, 0, 0>>), Value_Double(<<32768, 0, 0, 0>>),
     Value_String(<<>>), Value_String(<<97>>), Value_String(<<97, 98>>),
     Value_Bytes(<<>>), Value_Bytes(<<0>>), Value_Bytes(<<255>>),
     Value_List(<<>>), Value_List(<<Value_Zero>>),
     Value_List(<<Value_Int(AsI64(0))>>),
     Value_List(<<Value_Zero, Value_Zero>>),
     Value_Map(<<>>), Value_Map(<<<<Value_Zero, Value_Int(AsI64(0))>>>>),
     Value_Map(<<<<Value_Int(AsI64(0)), Value_Zero>>>>),
     Value_Object(<<>>), Value_Object(<<<<1, Value_Zero>>>>),
     Value_Object(<<<<0, Value_Bytes(<<>>)>>>>),
     Value_Object(<<<<0, Value_Zero>>, <<1, Value_Zero>>>>)}

OrdInit ==
    /\ \E a \in OrdValues, b \in OrdValues, c \in OrdValues :
          arg = [a |-> a, b |-> b, c |-> c]
    /\ bytes = <<>>
    /\ input = <<>>
    /\ ret = None
    /\ pc = "new"
    /\ Idle

\* a.cmp(&b), b.cmp(&a), b.cmp(&c), a.cmp(&c) and a == b
Cmp ==
    /\ pc = "new"
    /\ ret' = [ab |-> Value_cmp(arg.a, arg.b), ba |-> Value_cmp(arg.b, arg.a),
               bc |-> Value_cmp(arg.b, arg.c), ac |-> Value_cmp(arg.a, arg.c),
               eq |-> Value_eq(arg.a, arg.b)]
    /\ pc' = "cmp"
    /\ UNCHANGED <<bytes, input, arg>>
    /\ IdleUnchanged

OrdNext == Cmp

SpecOrd == OrdInit /\ [][OrdNext]_vars

\* the place of a variant in Zero < Int < Float < Double < String < Bytes <
\* List < Map < Object
VariantRank(v) ==
    CASE v[1] = "Zero" -> 0 [] v[1] = "Int" -> 1 [] v[1] = "Float" -> 2
      [] v[1] = "Double" -> 3 [] v[1] = "String" -> 4 [] v[1] = "Bytes" -> 5
      [] v[1] = "List" -> 6 [] v[1] = "Map" -> 7 [] v[1] = "Object" -> 8

\* x is below y as unsigned numbers given by their 16-bit limbs
RECURSIVE BitsBelow(_, _)
BitsBelow(x, y) ==
    /\ Len(x) > 0
    /\ \/ x[1] < y[1]
       \/ x[1] = y[1] /\ BitsBelow(Tail(x), Tail(y))

\* C17: cmp is a total order (each pair is Less, Equal or Greater, the
\* reverse pair the opposite, and the order is transitive) that ranks the
\* variants Zero < Int < Float < Double < String < Bytes < List < Map <
\* Object, orders Float and Double by their bit patterns, and answers Equal
\* exactly when the two Values are equal under PartialEq.
C17_TotalOrder ==
    pc = "cmp" =>
        /\ ret.ab \in {Less, Equal, Greater}
        /\ ret.ba = 0 - ret.ab
        /\ ret.ab # Greater /\ ret.bc # Greater => ret.ac # Greater
        /\ ret.ab = Less /\ ret.bc # Greater => ret.ac = Less
        /\ ret.ab # Greater /\ ret.bc = Less => ret.ac = Less
        /\ VariantRank(arg.a) < VariantRank(arg.b) => ret.ab = Less
        /\ arg.a[1] = arg.b[1] /\ arg.a[1] \in {"Float", "Double"} =>
              (ret.ab = Less <=> BitsBelow(arg.a[2], arg.b[2]))
        /\ ret.ab = Equal <=> ret.eq

C17_Witness ==
    /\ pc = "cmp"
    /\ arg.a = Value_Float(<<32704, 0>>)
    /\ arg.b = Value_Float(<<32768, 0>>)
    /\ arg.c = Value_Bytes(<<>>)
    /\ ret.ab = Less
    /\ ret.ac = Less


-----------------------------------------------------------------------------
(* SpecAny: a Deserializer is created over the given bytes, well-formed or  *)
(* raw, and Value::deserialize calls deserialize_any on it.                 *)

AnyInit == ParserInit

\* `Value::deserialize(&mut deserializer)`
Deserialize_any ==
    /\ pc = "from_bytes"
    /\ Called("deserialize_any", deserialize_any(input))

\* from_bytes::<Value>: the same, then the test of done()
From_bytes ==
    /\ pc = "from_bytes"
    /\ Called("done", from_bytes(input))

AnyNext ==
    \/ Deserialize_any
    \/ From_bytes

SpecAny == AnyInit /\ [][AnyNext]_vars

\* the variant that stands for a wire type other than the numbers
VariantOf(tp) ==
    CASE tp = Map -> "Map"
      [] tp = StructBegin -> "Object"
      [] tp = List -> "List"
      [] tp \in {String1, String4} -> "String"
      [] tp = Bytes -> "Bytes"
      [] tp = Zero -> "Zero"
      [] OTHER -> "number"

\* C18: the variant of a decoded Value is given by the wire type at the
\* cursor: Map gives Value::Map, also for the count 0, StructBegin gives
\* Value::Object keyed by the tags of its fields, List gives Value::List,
\* String1 and String4 give Value::String, Bytes gives Value::Bytes and
\* Zero gives Value::Zero.
C18_VariantByWireType ==
    pc = "deserialize_any" /\ ret.ok =>
        /\ VariantOf(HeaderType(arg.before)) # "number"
              => ret.val[1] = VariantOf(HeaderType(arg.before))
        /\ arg.e \in {<<240 + Map, 15, Zero>>, <<240 + Map, 15, I8, 0>>}
              => ret.val = Value_Map(<<>>)
        /\ arg.e = <<240 + StructBegin, 200, 240 + I16, 15, 255, 127,
                     16 + String1, 1, 97, StructEnd>>
              => ret.val = Value_Object(<<<<1, Value_String(<<97>>)>>,
                                          <<15, Value_Int(AsI64(-129))>>>>)

C18_Witness ==
    /\ pc = "deserialize_any"
    /\ arg.e = <<240 + Map, 15, Zero>>
    /\ arg.s = <<StructEnd>>
    /\ ret = Ok(Value_Map(<<>>), <<StructEnd>>)

-----------------------------------------------------------------------------
(* SpecCompound: to_bytes_with_tag(t, value) on a Serializer whose tag is  *)
(* t: the value is written in one call, or as serde drives a list, a map   *)
(* or a record: serialize_seq and its serialize_element, serialize_map and *)
(* its serialize_key and serialize_value, serialize_struct and its         *)
(* serialize_field.                                                        *)

MaxItems == 2

\* the elements, keys and values given to a list or a map
ItemValues ==
    {Value_Zero, Value_Int(AsI64(18)), Value_String(<<97>>),
     Value_List(<<Value_Int(AsI64(1)), Value_Zero>>),
     Value_Map(<<<<Value_Int(AsI64(1)),
                   Value_List(<<Value_Int(AsI64(2))>>)>>>>),
     Value_Object(<<<<5, Value_Map(<<<<Value_Zero, Value_Zero>>>>)>>>>)}

\* to_bytes_with_tag: Serializer::new, then `serializer.tag = tag`
CompoundInit ==
    /\ bytes = <<>>
    /\ tag \in TagSamples
    /\ ser_tags = {}
    /\ input = <<>>
    /\ de_tags = {}
    /\ de_fields = None
    /\ stack = <<>>
    /\ ret = None
    /\ pc = "new"
    /\ arg = [n |-> 0, key |-> <<>>, before |-> <<>>, earlier |-> <<>>,
              done |-> <<>>, vals |-> <<>>, top |-> tag, len |-> 0]

\* the Serializer after a call that returned r, the n-th of its kind
Written(op, n, r) ==
    /\ bytes' = r.ser.builder
    /\ tag' = r.ser.tag
    /\ ret' = IF r.ok THEN [ok |-> TRUE] ELSE [ok |-> FALSE, err |-> r.err]
    /\ pc' = op
    /\ arg' = [arg EXCEPT !.n = n, !.before = bytes]
    /\ UNCHANGED <<ser_tags, input, de_tags, de_fields, stack>>

\* `value.serialize(&mut serializer)` of to_bytes_with_tag
Serialize ==
    /\ pc = "new"
    /\ \E value \in ItemValues :
          Written("to_bytes_with_tag", 0,
                  Value_serialize(value, [tag |-> tag, builder |-> bytes]))

\* Serializer::serialize_seq(Some(len))
SerializeSeq ==
    /\ pc = "new"
    /\ \E len \in 0..MaxItems :
          /\ bytes' = serialize_seq([tag |-> tag, builder |-> bytes],
                                    len).ser.builder
          /\ arg' = [arg EXCEPT !.len = len]
    /\ ret' = [ok |-> TRUE]
    /\ pc' = "serialize_seq"
    /\ UNCHANGED <<tag, ser_tags, input, de_tags, de_fields, stack>>

\* SerializeSeq::serialize_element; a caller stops at the first error
SerializeElement ==
    /\ pc \in {"serialize_seq", "serialize_element"}
    /\ ret.ok
    /\ arg.n < arg.len
    /\ \E value \in ItemValues :
          Written("serialize_element", arg.n + 1,
                  serialize_element([tag |-> tag, builder |-> bytes], value))

\* Serializer::serialize_map(Some(len))
SerializeMap ==
    /\ pc = "new"
    /\ \E len \in 0..MaxItems :
          /\ bytes' = serialize_map([tag |-> tag, builder |-> bytes],
                                    len).ser.builder
          /\ arg' = [arg EXCEPT !.len = len]
    /\ ret' = [ok |-> TRUE]
    /\ pc' = "serialize_map"
    /\ UNCHANGED <<tag, ser_tags, input, de_tags, de_fields, stack>>

\* SerializeMap::serialize_key
SerializeKey ==
    /\ pc \in {"serialize_map", "serialize_value"}
    /\ ret.ok
    /\ arg.n < arg.len
    /\ \E key \in ItemValues :
          Written("serialize_key", arg.n,
                  serialize_key([tag |-> tag, builder |-> bytes], key))

\* SerializeMap::serialize_value
SerializeValue ==
    /\ pc = "serialize_key"
    /\ ret.ok
    /\ \E value \in ItemValues :
          Written("serialize_value", arg.n + 1,
                  serialize_value([tag |-> tag, builder |-> bytes], value))

CompoundNext ==
    \/ Serialize
    \/ SerializeSeq
    \/ SerializeElement
    \/ SerializeMap
    \/ SerializeKey
    \/ SerializeValue
    \/ SerializeStruct
    \/ SerializeField
    \/ End

SpecCompound == CompoundInit /\ [][CompoundNext]_vars

\* the values that start at b carry the tags `expected`, in this order, and
\* the lists, maps and records in them are tagged as CompoundTagged says
RECURSIVE ItemsTagged(_, _)
RECURSIVE CompoundTagged(_)
RECURSIVE FieldsTagged(_)
ItemsTagged(b, expected) ==
    \/ Len(expected) = 0
    \/ /\ pick_tag(b).ok
       /\ pick_tag(b).val = Head(expected)
       /\ CompoundTagged(b)
       /\ ignore(b).ok
       /\ ItemsTagged(ignore(b).rest, Tail(expected))

\* the value that starts at b, every list, map and record in it: the
\* elements of a list carry tag 0, the keys of a map tag 0 and its values
\* tag 1
CompoundTagged(b) ==
    CASE pick_type(b).val = List ->
           /\ JceParser_list(b).ok
           /\ ItemsTagged(JceParser_list(b).rest,
                          [i \in 1..JceParser_list(b).val |-> 0])
      [] pick_type(b).val = Map ->
           /\ JceParser_map(b).ok
           /\ ItemsTagged(JceParser_map(b).rest,
                          [i \in 1..(2 * JceParser_map(b).val) |-> (i + 1) % 2])
      [] pick_type(b).val = StructBegin ->
           FieldsTagged(JceParser_struct_begin(b).rest)
      [] OTHER -> TRUE

FieldsTagged(b) ==
    /\ pick_type(b).ok
    /\ \/ pick_type(b).val = StructEnd
       \/ /\ CompoundTagged(b)
          /\ ignore(b).ok
          /\ FieldsTagged(ignore(b).rest)

\* C21: the serializer writes every key of a map under tag 0 and every
\* value under tag 1, and every element of a list or tuple under tag 0,
\* whatever tag the enclosing map or list itself was written under; this
\* holds of the lists and maps nested in the element, key or value as well.
C21_ItemTags ==
    /\ pc \in {"serialize_seq", "serialize_map"}
       => /\ pick_head(bytes).val
               = <<arg.top, IF pc = "serialize_seq" THEN List ELSE Map>>
          /\ ignore(bytes).rest = <<>>
    /\ pc \in {"serialize_element", "serialize_key"} /\ ret.ok
       => ItemsTagged(Appended, <<0>>) /\ ignore(Appended).rest = <<>>
    /\ pc = "serialize_value" /\ ret.ok
       => ItemsTagged(Appended, <<1>>) /\ ignore(Appended).rest = <<>>
    /\ pc = "to_bytes_with_tag" /\ ret.ok
       => ItemsTagged(bytes, <<arg.top>>) /\ ignore(bytes).rest = <<>>

C21_Witness ==
    /\ pc = "serialize_value"
    /\ arg.top = 255
    /\ arg.n = 2
    /\ ret.ok
    /\ Appended = <<16 + Map, I8, 1, I8, 1, 16 + List, I8, 1, I8, 2>>

\* C29: after every successful serialize_element, serialize_key,
\* serialize_value and serialize_field the Serializer's tag is what it was
\* before the call, however deep the value nests; so a successful
\* to_bytes_with_tag(t, value) ends with the tag equal to t.
C29_TagRestored ==
    /\ pc \in {"serialize_element", "serialize_key", "serialize_value",
               "serialize_field", "to_bytes_with_tag"}
    /\ ret.ok
    => tag = arg.top

C29_Witness ==
    /\ pc = "serialize_field"
    /\ ret.ok
    /\ arg.top = 14
    /\ arg.key = <<50, 53, 53>>
    /\ arg.vals = <<Value_Object(<<<<1, Value_String(<<97>>)>>>>)>>
    /\ tag = 14

-----------------------------------------------------------------------------
(* Failed reads, under SpecPeek                                            *)

\* b starts with a header that can be read: a known type nibble and, when
\* the high nibble is 15, a second byte
HeadReadable(b) ==
    /\ Len(b) >= 1
    /\ b[1] % 16 \in JceType
    /\ b[1] \div 16 = 15 => Len(b) >= 2

\* a is what remains of b after some of its first bytes were consumed
IsSuffix(a, b) ==
    Len(a) <= Len(b) /\ a = SubSeqFrom(b, Len(b) - Len(a) + 1)

CountRead(n) ==
    IF ~n.ok THEN ret = n
    ELSE IF n.val < 0 THEN ~ret.ok /\ ret.err = "WrongLength"
    ELSE ret = Ok(n.val, n.rest)

\* C23: map() and list() return 0 on a Zero header, the count read through
\* the i32 widening reader on a Map (for map) or List (for list) header,
\* WrongType on every other header type, and WrongLength when the stored
\* count is negative.
C23_EntryCount ==
    pc \in {"map", "list"} /\ HasHeader(arg.before) =>
        CASE HeaderType(arg.before) = Zero ->
               ret = Ok(0, SubSeqFrom(arg.before, HeaderLen(arg.before) + 1))
          [] HeaderType(arg.before) = (IF pc = "map" THEN Map ELSE List) ->
               CountRead(JceParser_i32(
                   SubSeqFrom(arg.before, HeaderLen(arg.before) + 1)))
          [] OTHER -> ~ret.ok /\ ret.err = "WrongType"

C23_Witness ==
    /\ pc = "list"
    /\ arg.before = <<240 + List, 200, 16 + I16, 1, 0, 18>>
    /\ ret = Ok(256, <<18>>)

\* a negative stored count
C23_WitnessNegative ==
    /\ pc = "map"
    /\ arg.before = <<16 + Map, I16, 128, 0>>
    /\ ~ret.ok
    /\ ret.err = "WrongLength"
    /\ input = <<>>

\* the fewest payload bytes that follow a header of type tp
PayloadAtLeast(tp) ==
    CASE tp \in {I8, String1, Map, List} -> 1
      [] tp \in {I16, Bytes} -> 2
      [] tp \in {I32, F32, String4} -> 4
      [] tp \in {I64, F64} -> 8
      [] OTHER -> 0

\* C27: whenever the first header byte has the high nibble 15, a successful
\* consuming read has advanced past both header bytes and the payload that
\* follows them, whatever the tag byte is, tag bytes below 15 included.
C27_TwoByteHeaderSkipped ==
    /\ pc \in ReadOps
    /\ ret.ok
    /\ Len(arg.before) >= 1
    /\ arg.before[1] \div 16 = 15
    => Len(arg.before) - Len(input)
           >= 2 + PayloadAtLeast(HeaderType(arg.before))

-----------------------------------------------------------------------------
(* Results of from_bytes::<Value>, under SpecAny                           *)

\* enum Error, the variants the decoder returns
DecodeErrors ==
    {"UnknownJceType", "NotEnoughtBytes", "TrailingBytes", "ErrorFieldTag",
     "DuplicateFieldTag", "DuplicateFieldTagName", "WrongType", "WrongLength",
     "StringIsNotUtf8"}

\* C28: for every input, decoding into a Value returns Ok or Err: whatever
\* wire type stands where a value is expected, StructEnd included, the call
\* returns a result and does not panic.
C28_NeverPanics ==
    pc \in {"deserialize_any", "done"} => ret.ok \/ ret.err \in DecodeErrors

-----------------------------------------------------------------------------
(* SpecWalk: JceParser::ignore and Value::deserialize, call by call.  A    *)
(* step is one call of ignore / deserialize_any up to the point where it   *)
(* returns or enters the loop over a list, a map or a record, or one pass  *)
(* through the head of the innermost loop in progress: the Range of the    *)
(* `for` loops and the `loop` of ignore, the Sequence and the TagsAccess   *)
(* that ValueVisitor drives with next_element and next_entry.              *)

\* a loop or an access that has just been entered
Frame(kind, size) ==
    [kind |-> kind, cur |-> 0, size |-> size, handed |-> 0, tags |-> {}]

\* Sequence::new
Sequence_new(kind, size) == Frame(kind, size)

\* SeqAccess::next_element_seed for Sequence, up to the call of the seed:
\* None at the end, else the Sequence that reads the next element
Sequence_next_element_seed_Bad(f) ==
    IF f.cur > f.size THEN None ELSE Some([f EXCEPT !.cur = @ + 1])
Sequence_next_element_seed(f) ==
    IF f.cur = f.size THEN None ELSE Some([f EXCEPT !.cur = @ + 1])

\* MapAccess::next_key_seed for Sequence, up to the call of the seed
Sequence_next_key_seed(f) == IF f.cur = f.size THEN None ELSE Some(f)

\* MapAccess::next_value_seed for Sequence, up to the call of the seed
Sequence_next_value_seed(f) == [f EXCEPT !.cur = @ + 1]

\* Range::next of `for _ in 0..len`
Range_next(f) ==
    IF f.cur < f.size THEN Some([f EXCEPT !.cur = @ + 1]) ELSE None

\* the outcome of a call that read a whole value, or failed
Leaf(r) ==
    IF r.ok THEN [ok |-> TRUE, rest |-> r.rest, open |-> None]
    ELSE [ok |-> FALSE, err |-> r.err, rest |-> r.rest, open |-> None]

\* the outcome of a call that read the head of a list, a map or a record
\* and enters its loop
Opened(r, frame) ==
    IF r.ok THEN [ok |-> TRUE, rest |-> r.rest, open |-> Some(frame)]
    ELSE Leaf(r)

\* the arm of ignore (mode "ignore") and of deserialize_any (mode "any")
\* for the type tp of the next header
ExpectArm(mode, tp, b) ==
    CASE tp = List ->
           Match(JceParser_list(b), LAMBDA len :
               Opened(len, IF ~len.ok THEN None
                           ELSE IF mode = "ignore" THEN Frame("range", len.val)
                           ELSE Sequence_new("seq", len.val)))
      [] tp = Map ->
           Match(JceParser_map(b), LAMBDA len :
               Opened(len, IF ~len.ok THEN None
                           ELSE IF mode = "ignore" THEN Frame("pairs", len.val)
                           ELSE Sequence_new("map", len.val)))
      [] tp = StructBegin ->
           Opened(JceParser_struct_begin(b),
                  Frame(IF mode = "ignore" THEN "fields" ELSE "tags", 0))
      [] OTHER ->
           Leaf(IF mode = "ignore" THEN IgnoreArm(tp, b)
                ELSE DeserializeArm(tp, b))

\* one call of ignore or deserialize_any on the bytes b
Expect(mode, b) ==
    IF mode = "ignore"
    THEN Match(pick_type(b), LAMBDA tp :
             IF tp.ok THEN ExpectArm(mode, tp.val, b) ELSE Leaf(tp))
    ELSE Match(pick_head(b), LAMBDA h :
             IF h.ok THEN ExpectArm(mode, h.val[2], b) ELSE Leaf(h))

\* the outcome of a pass through the head of a loop: the loop goes on with
\* the frame f and reads a value next, or it ends, or it fails
GoOn(f, b) == [ok |-> TRUE, rest |-> b, more |-> TRUE, frame |-> f]
Close(f, b) == [ok |-> TRUE, rest |-> b, more |-> FALSE, frame |-> f]
Fail(r, f) ==
    [ok |-> FALSE, err |-> r.err, rest |-> r.rest, more |-> FALSE, frame |-> f]
GoOnIf(f, next, b) == IF next = None THEN Close(f, b) ELSE GoOn(next[1], b)

\* the head of the loop f, the parser at b
LoopHead(f, b) ==
    CASE f.kind = "range" -> GoOnIf(f, Range_next(f), b)
      [] f.kind = "pairs" ->
           IF f.handed % 2 = 0 THEN GoOnIf(f, Range_next(f), b)
           ELSE GoOn(f, b)
      [] f.kind = "seq" -> GoOnIf(f, Sequence_next_element_seed(f), b)
      [] f.kind = "map" ->
           IF f.handed % 2 = 0 THEN GoOnIf(f, Sequence_next_key_seed(f), b)
           ELSE GoOn(Sequence_next_value_seed(f), b)
      [] f.kind = "fields" ->
           Match(pick_type(b), LAMBDA tp :
               IF ~tp.ok THEN Fail(tp, f)
               ELSE IF tp.val # StructEnd THEN GoOn(f, b)
               ELSE Match(JceParser_struct_end(b), LAMBDA r :
                        IF r.ok THEN Close(f, r.rest) ELSE Fail(r, f)))
      [] f.kind = "tags" ->
           Match(next_key_seed(f.tags, None, b), LAMBDA k :
               IF ~k.ok THEN Fail(k, f)
               ELSE IF k.val = None THEN Close(f, k.rest)
               ELSE GoOn([f EXCEPT !.tags = k.tags], k.rest))

\* the enclosing loop has been handed one more value
Credit(st) ==
    IF Len(st) = 0 THEN st
    ELSE [st EXCEPT ![Len(st)] = [@ EXCEPT !.handed = @ + 1]]

\* inputs that open a record and end before its StructEnd header
CutRecords ==
    {<<StructBegin>>, <<240 + StructBegin>>, <<240 + StructBegin, 200>>,
     <<StructBegin, I8, 18>>, <<StructBegin, I8>>,
     <<StructBegin, 16 + String1, 2, 97>>,
     <<StructBegin, 32 + StructBegin, Zero, StructEnd>>,
     <<StructBegin, 32 + StructBegin, Zero, StructEnd, 240 + I16, 15, 1>>,
     <<StructBegin, 16 + List, I8, 2, Zero>>,
     <<StructBegin, Zero, 16 + Map, I8, 1, Zero>>,
     <<StructBegin, 16 + StructBegin, 32 + StructBegin>>}

\* records in records: the nested records reuse the tags 1 and 0 of their
\* parent and of each other; a tag twice in the parent; a tag twice in the
\* nested record
NestedRecords ==
    {<<StructBegin, 16 + StructBegin, 16 + I8, 5, I8, 6, StructEnd,
       32 + StructBegin, 16 + I8, 7, StructEnd, I8, 9, StructEnd>>,
     <<StructBegin, 16 + I8, 5, 16 + StructBegin, StructEnd, StructEnd>>,
     <<StructBegin, 16 + StructBegin, 16 + I8, 5, 16 + Zero, StructEnd,
       StructEnd>>}

\* nested lists, maps and records, and a StructEnd header where a value is
\* expected
WalkInputs ==
    {c.e \o c.s : c \in ParserCases}
    \cup CutRecords
    \cup {<<List, I8, 1, StructEnd>>, <<16 + Map, I8, 1, Zero, StructEnd>>,
          <<List, I8, 2, 16 + List, I8, 1, Zero, I8, 5, 18>>,
          <<Map, I8, 2, Zero, 16 + I8, 1, 32 + List, Zero, 48 + Zero, 18>>,
          <<List, I8, 3, Zero, Zero>>}
    \cup NestedRecords

\* Deserializer::from_bytes; the caller is about to skip a value (mode
\* "ignore") or to decode one as a Value (mode "any")
WalkInit ==
    /\ \E e \in WalkInputs, mode \in {"ignore", "any"} :
          /\ arg = [e |-> e, mode |-> mode, before |-> e, last |-> "from_bytes",
                    closed |-> None, steps |-> 0]
          /\ input = e
    /\ bytes = <<>>
    /\ ret = None
    /\ pc = "expect"
    /\ Idle

\* the call returns r to the caller of ignore / Value::deserialize
Returned(r) ==
    /\ pc' = "return"
    /\ ret' = r
    /\ stack' = <<>>

\* a value is complete: the run returns Ok, or goes on with the loop that
\* asked for the value
Completed(st, rest) ==
    IF Len(st) = 0 THEN Returned(Ok(None, rest))
    ELSE /\ pc' = "loop"
         /\ stack' = Credit(st)
         /\ UNCHANGED ret

\* the step has moved the parser to rest
Walked(last, closed, rest) ==
    /\ input' = rest
    /\ arg' = [arg EXCEPT !.before = input, !.last = last,
                          !.closed = closed, !.steps = @ + 1]
    /\ UNCHANGED <<bytes, tag, ser_tags, de_tags, de_fields>>

\* one call of ignore / deserialize_any, up to its return or its loop
WalkValue ==
    /\ pc = "expect"
    /\ Match(Expect(arg.mode, input), LAMBDA r :
          /\ Walked("value", None, r.rest)
          /\ IF ~r.ok THEN Returned(Err(r.err, r.rest))
             ELSE IF r.open = None THEN Completed(stack, r.rest)
             ELSE /\ pc' = "loop"
                  /\ stack' = Append(stack, r.open[1])
                  /\ UNCHANGED ret)

\* one pass through the head of the innermost loop
WalkLoop ==
    /\ pc = "loop"
    /\ Match(LoopHead(stack[Len(stack)], input), LAMBDA r :
          IF ~r.ok
          THEN Walked("next", None, r.rest) /\ Returned(Err(r.err, r.rest))
          ELSE IF r.more
          THEN /\ Walked("next", None, r.rest)
               /\ pc' = "expect"
               /\ stack' = [stack EXCEPT ![Len(stack)] = r.frame]
               /\ UNCHANGED ret
          ELSE /\ Walked("close", Some(r.frame), r.rest)
               /\ Completed(SubSeq(stack, 1, Len(stack) - 1), r.rest))

WalkNext ==
    \/ WalkValue
    \/ WalkLoop

SpecWalk == WalkInit /\ [][WalkNext]_vars

\* what ignore() and Value::deserialize return in one piece
WalkResult ==
    IF arg.mode = "ignore" THEN ignore(arg.e) ELSE deserialize_any(arg.e)

\* the run call by call ends as the call in one piece does
WalkAgrees ==
    pc = "return" =>
        /\ ret.ok = WalkResult.ok
        /\ ret.rest = WalkResult.rest
        /\ input = WalkResult.rest
        /\ ~ret.ok => ret.err = WalkResult.err

\* C24: for every finite input, ignore and the decoding of a Value end
\* with a result: every call consumes at least one byte or returns an
\* error, so the calls and loop passes of a run are bounded by the length
\* of the input, and an input that opens a record and ends before the
\* record's StructEnd header ends with NotEnoughtBytes.
C24_TerminatesWithResult ==
    /\ arg.last = "value" =>
          \/ Len(input) < Len(arg.before)
          \/ pc = "return" /\ ~ret.ok /\ ret.err \in DecodeErrors
    /\ arg.steps <= 2 * Len(arg.e) + 1
    /\ pc = "return" => ret.ok \/ ret.err \in DecodeErrors
    /\ pc = "return" /\ arg.e \in CutRecords =>
          ~ret.ok /\ ret.err = "NotEnoughtBytes"

\* the Sequence f is between two calls of its methods, or inside one
SequenceInRange(f) ==
    /\ 0 <= f.cur
    /\ f.cur <= f.size
    /\ f.kind = "seq" => f.handed \in {f.cur - 1, f.cur}
    /\ f.kind = "map" => f.handed \in {2 * f.cur - 1, 2 * f.cur, 2 * f.cur + 1}

\* C25: a list decoded with the count n hands the visitor exactly n
\* elements and then the end of the sequence, for which no byte is read; a
\* map with the count n hands exactly n keys and n values, key before
\* value; the counter of the Sequence stays within 0..size at every step.
C25_SequenceCount ==
    /\ \A i \in DOMAIN stack :
          stack[i].kind \in {"seq", "map"} => SequenceInRange(stack[i])
    /\ arg.last = "close" /\ arg.closed[1].kind \in {"seq", "map"} =>
          /\ input = arg.before
          /\ arg.closed[1].cur = arg.closed[1].size
          /\ arg.closed[1].handed
                = (IF arg.closed[1].kind = "seq" THEN 1 ELSE 2)
                      * arg.closed[1].size
    /\ arg.last = "next" /\ pc = "expect"
       /\ stack[Len(stack)].kind \in {"seq", "map"} =>
          /\ input = arg.before
          /\ stack[Len(stack)].handed
                < (IF stack[Len(stack)].kind = "seq" THEN 1 ELSE 2)
                      * stack[Len(stack)].size

C25_Witness ==
    /\ arg.e = <<Map, I8, 2, Zero, 16 + I8, 1, 32 + List, Zero, 48 + Zero, 18>>
    /\ arg.mode = "any"
    /\ arg.last = "close"
    /\ arg.closed = Some([kind |-> "map", cur |-> 2, size |-> 2, handed |-> 4,
                          tags |-> {}])
    /\ input = <<18>>
    /\ pc = "return"
    /\ ret.ok

-----------------------------------------------------------------------------
(* The terminator of a record, under SpecRecord                            *)

\* C30: while a record is decoded, a StructEnd header ends it whatever its
\* tag: the next key is None, the seen tags are neither consulted nor
\* changed, so a terminator under a tag already seen in the record raises
\* no DuplicateFieldTag, and the parser stands at the first byte after the
\* terminator's header.
C30_TerminatorAnyTag ==
    [][/\ pc \in {"struct", "next_value"}
       /\ ret.ok
       /\ HasHeader(input)
       /\ HeaderType(input) = StructEnd
       => /\ pc' = "next_key"
          /\ ret'.ok
          /\ ret'.val = None
          /\ de_tags' = de_tags
          /\ input' = SubSeqFrom(input, HeaderLen(input) + 1)]_vars

\* the record's only field and its terminator are both under the tag 15
C30_Witness ==
    /\ pc = "next_key"
    /\ ret.ok
    /\ ret.val = None
    /\ arg.end = 15
    /\ Len(arg.fields) = 1
    /\ arg.fields[1].tag = 15
    /\ de_tags = {15}
    /\ arg.before = <<240 + StructEnd, 15>>
    /\ input = <<>>

-----------------------------------------------------------------------------
(* SpecTags: the seen-tag sets of records, while a record is written field *)
(* by field (SpecStruct) and while values are decoded call by call         *)
(* (SpecWalk).                                                             *)

TagsInit == StructInit \/ WalkInit

TagsNext == StructNext \/ WalkNext

SpecTags == TagsInit /\ [][TagsNext]_vars

\* the tags of the fields written so far in the record
WrittenTags == {KeyTag(arg.done[i]) : i \in DOMAIN arg.done}

\* the StructSerializer of a record starts without tags and gains the tag
\* of each field written, never a tag of a record nested in the field; a
\* field fails as a duplicate only when its own tag was written before
EncodeOwnTags ==
    /\ pc = "serialize_struct" => ser_tags = {}
    /\ pc = "serialize_field" /\ ret.ok => ser_tags = WrittenTags
    /\ pc = "serialize_field" /\ KeyTag(arg.key) >= 0 =>
          (ret.ok <=> ~TagAlreadyWritten)
    /\ pc = "serialize_field" /\ TagAlreadyWritten =>
          ret.err = "DuplicateFieldTag"

\* a step of the decoder gives a record it enters an empty set, changes
\* the set of the innermost record only, by the tag of the field it stands
\* at, and raises DuplicateFieldTag only for a tag in that innermost set
DecodeOwnTags ==
    /\ Len(stack') > Len(stack) => stack'[Len(stack')].tags = {}
    /\ \A i \in 1..Len(stack) :
          i <= Len(stack') =>
              \/ stack'[i].tags = stack[i].tags
              \/ /\ i = Len(stack)
                 /\ pc = "loop"
                 /\ stack[i].kind = "tags"
                 /\ pick_tag(input).val \notin stack[i].tags
                 /\ stack'[i].tags = stack[i].tags \cup {pick_tag(input).val}
    /\ pc' = "return" /\ ~ret'.ok /\ ret'.err = "DuplicateFieldTag" =>
          /\ pc = "loop"
          /\ stack[Len(stack)].kind = "tags"
          /\ pick_tag(input).val \in stack[Len(stack)].tags

\* C26: the seen-tag set is created empty for each record, when decoding
\* and when encoding, and is not shared between records: a nested record
\* may reuse the tags of its parent and of its siblings without
\* DuplicateFieldTag, and a nested record adds to its parent's set only
\* the tag of the field that holds it.
C26_OwnTagSets == []EncodeOwnTags /\ [][DecodeOwnTags]_vars

\* the second nested record has read its field under tag 1, a tag of its
\* parent and of the first nested record
C26_Witness ==
    /\ pc = "expect"
    /\ arg.mode = "any"
    /\ Len(stack) = 2
    /\ stack[1].kind = "tags"
    /\ stack[1].tags = {1, 2}
    /\ stack[2].kind = "tags"
    /\ stack[2].tags = {1}
    /\ input = <<16 + I8, 7, StructEnd, I8, 9, StructEnd>>

=============================================================================
